---- MODULE Spec2Model ----
(***************************************************************************)
(* Model of the Hunter ingestion -> deduplication -> freshness pipeline    *)
(* (src/src/worker/pipeline/*.ts, src/src/lib/domain/normalize.ts) over a  *)
(* relational store with the unique keys of the Prisma migration.          *)
(*                                                                         *)
(* Conventions:                                                            *)
(*  - a nullable column holds <<>> (SQL NULL / JS null) or <<v>>;          *)
(*  - timestamps are whole days (DayMs milliseconds each);                 *)
(*  - latitude / longitude are integers in units of 0.0001 degree;         *)
(*  - bedroom / bathroom counts are integers in units of 0.5;              *)
(*  - a street address is the sequence of its tokens: maximal runs of word *)
(*    characters, and the single characters " ", ",", "." and "#".         *)
(***************************************************************************)
EXTENDS Integers, Sequences, FiniteSets, TLC

\* ------------------------------------------------------------------ bounds
MaxTime == 15
ShortTime == 7
MaxRows == 3
MaxUnits == 2
MaxLog == 2
MaxJobs == 2
MaxCalls == 3

\* --------------------------------------------------------- nullable values
Null == <<>>
Some(v) == <<v>>
IsNull(x) == x = <<>>
Val(x) == x[1]

Abs(n) == IF n < 0 THEN -n ELSE n

\* ------------------------------------------------------------ time (days)
SevenDays == 7
FourteenDays == 14
TickSteps == {7, 8}

\* ------------------------------------------------- normalize.ts: addresses
PunctTokens == {" ", ",", ".", "#"}
IsWord(t) == t \notin PunctTokens

\* String.prototype.toLowerCase on the word vocabulary of the model
LowerWord(w) ==
  CASE w = "East" -> "east"
    [] w = "E" -> "e"
    [] w = "West" -> "west"
    [] w = "W" -> "w"
    [] w = "Street" -> "street"
    [] w = "St" -> "st"
    [] w = "Road" -> "road"
    [] w = "Rd" -> "rd"
    [] w = "Apt" -> "apt"
    [] w = "Unit" -> "unit"
    [] w = "Steinway" -> "steinway"
    [] w = "2G" -> "2g"
    [] w = "3F" -> "3f"
    [] OTHER -> w

ToLowerCase(s) == [i \in 1..Len(s) |-> LowerWord(s[i])]

RECURSIVE TrimLeft(_)
TrimLeft(s) == IF s # <<>> /\ Head(s) = " " THEN TrimLeft(Tail(s)) ELSE s

RECURSIVE TrimRight(_)
TrimRight(s) ==
  IF s # <<>> /\ s[Len(s)] = " " THEN TrimRight(SubSeq(s, 1, Len(s) - 1)) ELSE s

Trim(s) == TrimRight(TrimLeft(s))

\* the alternation (apt|apartment|unit|suite|ste|#) of the unit-suffix regex
Designators == {"apt", "apartment", "unit", "suite", "ste"}

\* words of the vocabulary that begin with a designator and continue with
\* more word characters (the regex has no \b after the alternation)
DesignatorPrefixed == {"steinway", "united", "apt2g"}

\* \s*\.?\s*\w*$ matched against the tokens from position j on
RECURSIVE SkipSpaces(_, _)
SkipSpaces(s, j) == IF j <= Len(s) /\ s[j] = " " THEN SkipSpaces(s, j + 1) ELSE j

TailMatches(s, j) ==
  LET j1 == SkipSpaces(s, j)
      j2 == IF j1 <= Len(s) /\ s[j1] = "." THEN j1 + 1 ELSE j1
      j3 == SkipSpaces(s, j2)
      j4 == IF j3 <= Len(s) /\ IsWord(s[j3]) THEN j3 + 1 ELSE j3
  IN j4 = Len(s) + 1

\* does /\b(apt|apartment|unit|suite|ste|#)\s*\.?\s*\w*$/ match starting at token i
SuffixMatchesAt(s, i) ==
  \/ s[i] \in Designators /\ TailMatches(s, i + 1)
  \/ s[i] \in DesignatorPrefixed /\ i = Len(s)
  \/ s[i] = "#" /\ i > 1 /\ IsWord(s[i - 1]) /\ TailMatches(s, i + 1)

StripUnitSuffix(s) ==
  LET hits == {i \in 1..Len(s) : SuffixMatchesAt(s, i)}
  IN IF hits = {} THEN s
     ELSE LET first == CHOOSE i \in hits : \A k \in hits : i <= k
          IN SubSeq(s, 1, first - 1)

\* the chain of whole-word replacements
Abbreviate(w) ==
  CASE w = "street" -> "st"
    [] w = "avenue" -> "ave"
    [] w = "boulevard" -> "blvd"
    [] w = "drive" -> "dr"
    [] w = "road" -> "rd"
    [] w = "place" -> "pl"
    [] w = "last" -> "e"
    [] w = "west" -> "w"
    [] w = "north" -> "n"
    [] w = "south" -> "s"
    [] OTHER -> w

RECURSIVE CollapseSpaces(_)
CollapseSpaces(s) ==
  IF Len(s) < 2 THEN s
  ELSE IF s[1] = " " /\ s[2] = " " THEN CollapseSpaces(Tail(s))
  ELSE <<s[1]>> \o CollapseSpaces(Tail(s))

RECURSIVE StripTrailingPunct(_)
StripTrailingPunct(s) ==
  IF s # <<>> /\ s[Len(s)] \in {",", "."}
  THEN StripTrailingPunct(SubSeq(s, 1, Len(s) - 1))
  ELSE s

normalizeAddress(input) ==
  LET a1 == Trim(ToLowerCase(input))
      a2 == StripUnitSuffix(a1)
      a3 == [i \in 1..Len(a2) |-> Abbreviate(a2[i])]
      a4 == Trim(CollapseSpaces(a3))
  IN Trim(StripTrailingPunct(a4))

\* ------------------------------------------------- normalize.ts: geoBucket
\* Math.round(x * 1000) for x given in units of 0.0001: half rounds up
Round3(x) == (x + 5) \div 10

geoBucket(lat, lng) ==
  IF IsNull(lat) \/ IsNull(lng) THEN Null
  ELSE Some(<<Round3(Val(lat)), Round3(Val(lng))>>)

\* JS truthiness of a nullable string (null and the empty string are falsy):
\* of an address, whose empty string is the empty token sequence, and of a label
TruthyAddr(x) == ~IsNull(x) /\ Val(x) # <<>>
TruthyStr(x) == ~IsNull(x) /\ Val(x) # ""

\* ----------------------------------------------------- sources and inputs
Sources == {"leasebreak", "streeteasy"}
Urls == {"u1", "u2"}

Addr350Apt == <<"350", " ", "East", " ", "52nd", " ", "Street", ",", " ", "Apt", " ", "2G">>
Addr350 == <<"350", " ", "east", " ", "52nd", " ", "St", ".">>
Addr12 == <<"12", " ", "West", " ", "Road">>

\* what adapter.parse extracts from each of the fetched bodies of the model
Parsed ==
  [c1 |-> [address |-> Some(Addr350Apt), unit |-> Some("2G"),
           neighborhood |-> Some("Midtown"), borough |-> Some("Manhattan"),
           lat |-> Some(407128), lng |-> Some(-740060),
           rentGross |-> Some(3200), rentNetEffective |-> Null,
           bedrooms |-> Some(2), bathrooms |-> Some(2), brokerFee |-> Some(TRUE)],
   c2 |-> [address |-> Some(Addr350), unit |-> Null,
           neighborhood |-> Null, borough |-> Null,
           lat |-> Null, lng |-> Null,
           rentGross |-> Some(3500), rentNetEffective |-> Some(3300),
           bedrooms |-> Null, bathrooms |-> Null, brokerFee |-> Null],
   c3 |-> [address |-> Some(Addr350), unit |-> Some("2g"),
           neighborhood |-> Some("Midtown"), borough |-> Some("Manhattan"),
           lat |-> Some(407132), lng |-> Some(-740061),
           rentGross |-> Some(3500), rentNetEffective |-> Null,
           bedrooms |-> Some(3), bathrooms |-> Null, brokerFee |-> Some(FALSE)],
   c4 |-> [address |-> Some(Addr12), unit |-> Some("2G"),
           neighborhood |-> Null, borough |-> Null,
           lat |-> Some(407126), lng |-> Some(-740058),
           rentGross |-> Some(3200), rentNetEffective |-> Null,
           bedrooms |-> Some(4), bathrooms |-> Some(2), brokerFee |-> Some(TRUE)],
   c5 |-> [address |-> Null, unit |-> Some("2g"),
           neighborhood |-> Null, borough |-> Null,
           lat |-> Some(407134), lng |-> Some(-740064),
           rentGross |-> Some(3500), rentNetEffective |-> Null,
           bedrooms |-> Some(3), bathrooms |-> Some(3), brokerFee |-> Some(TRUE)]]

Contents == DOMAIN Parsed

\* normalizeAddress on the addresses the bodies of the model carry
AddrAptOnly == <<"Apt", " ", "2G">>
ModelAddresses ==
  {Val(Parsed[c].address) : c \in {d \in DOMAIN Parsed : ~IsNull(Parsed[d].address)}}
    \cup {AddrAptOnly}
NormalizedPairs == {<<a, normalizeAddress(a)>> : a \in ModelAddresses}
NormalizedAddress == [a \in ModelAddresses |-> (CHOOSE p \in NormalizedPairs : p[1] = a)[2]]

\* ------------------------------------------------------------------- state
VARIABLES
  now,            \* wall clock (new Date())
  rawListings,    \* table RawListing: set of rows
  normalized,     \* table NormalizedListing: set of rows
  units,          \* table CanonicalUnit: sequence of rows, id = index
  postings,       \* table UnitPosting: set of rows
  changeLog,      \* table ChangeLog: sequence of rows in insertion order
  job,            \* position of a running dedupeAll
  completed,      \* (source, url) pairs for which an ingestOne call returned
  last,           \* the operation that produced this state, with its results
  scrapeJobs,     \* table ScrapeJob: sequence of rows, id = index
  crawl,          \* locals and position of a running crawl orchestrator
  net,            \* rate limiter map, fetchWithPolicy calls in flight, clock in ms
  inflight        \* overlapping ingestOne / dedupeAndUpsertCanonical calls, by caller

vars == <<now, rawListings, normalized, units, postings, changeLog, job, completed, last,
          scrapeJobs, crawl, net, inflight>>

\* what the pipeline operations on the store leave alone
orchVars == <<scrapeJobs, crawl, net, inflight>>

Idle == [phase |-> "idle"]

\* the callers whose calls may overlap (worker, import route requests)
Procs == {"a", "b"}

\* no call of a caller is under way
NoCall == [pc |-> "none"]
NoCalls == [p \in Procs |-> NoCall]
NotCrawling == [pc |-> "idle"]
\* hostnames the limiter may see; "unknown" is getDomain's value for an invalid URL
Hosts == {"www.leasebreak.com", "leasebreak.com", "streeteasy.com", "unknown"}

\* the paths of execution that may be inside the limiter or fetchWithPolicy
Callers == {"p", "q"}

\* Date.now() when the process makes its first request: epoch milliseconds, far
\* above every delay; the model starts the clock at a value above the largest
StartClock == 5000

\* a path of execution that is in neither function
IdleCaller ==
  [pc |-> "idle", url |-> <<>>, wakeAt |-> 0, ret |-> "idle",
   attempt |-> 0, maxRetries |-> 0, lastError |-> <<>>,
   opts |-> [maxRetries |-> <<>>, skipRateLimit |-> FALSE],
   \* bookkeeping, not read by the code
   tried |-> <<>>, trace |-> <<>>, result |-> <<>>, limiterAtStart |-> <<>>]

\* rateLimit.ts at module load: an empty lastRequestTime map (get(d) ?? 0 reads 0)
NetIdle ==
  [clock |-> StartClock,
   lastRequestTime |-> [d \in Hosts |-> 0],
   granted |-> [d \in Hosts |-> <<>>],
   callers |-> [c \in Callers |-> IdleCaller],
   calls |-> 0]

Init ==
  /\ now = 0
  /\ rawListings = {}
  /\ normalized = {}
  /\ units = <<>>
  /\ postings = {}
  /\ changeLog = <<>>
  /\ job = Idle
  /\ completed = {}
  /\ last = [op |-> "init"]
  /\ scrapeJobs = <<>>
  /\ crawl = NotCrawling
  /\ net = NetIdle
  /\ inflight = NoCalls

\* the passage of time between operations, up to day maxT
Tick(maxT) ==
  /\ job = Idle
  /\ \E d \in TickSteps :
       /\ now + d <= maxT
       /\ now' = now + d
  /\ last' = [op |-> "tick"]
  /\ UNCHANGED <<rawListings, normalized, units, postings, changeLog, job, completed>>
  /\ UNCHANGED orchVars

\* ------------------------------------------------------ ingest.ts: ingestOne
RowsFor(table, source, url) == {r \in table : r.source = source /\ r.sourceUrl = url}

\* the store gives every new row an id no other row of the table has
FreshId(table, source, url) == <<source, url, Cardinality(RowsFor(table, source, url))>>

\* prisma.rawListing.upsert keyed by source_sourceUrl
UpsertRaw(table, source, url, content, t) ==
  IF RowsFor(table, source, url) # {}
  THEN {IF r.source = source /\ r.sourceUrl = url
        THEN [r EXCEPT !.fetchedAt = t, !.rawContent = content]
        ELSE r : r \in table}
  ELSE table \cup {[id |-> FreshId(table, source, url), source |-> source,
                    sourceUrl |-> url, fetchedAt |-> t, rawContent |-> content,
                    extractedJson |-> Null]}

\* prisma.rawListing.update({ where: { id }, data: { extractedJson } })
SetExtractedJson(table, id, parsed) ==
  {IF r.id = id THEN [r EXCEPT !.extractedJson = Some(parsed)] ELSE r : r \in table}

ListingFields(p) ==
  [address |-> p.address, unit |-> p.unit, neighborhood |-> p.neighborhood,
   borough |-> p.borough, lat |-> p.lat, lng |-> p.lng, rentGross |-> p.rentGross,
   rentNetEffective |-> p.rentNetEffective, bedrooms |-> p.bedrooms,
   bathrooms |-> p.bathrooms, brokerFee |-> p.brokerFee]

\* variant: create instead of upsert (the unique key is not consulted)
UpsertNormalized_AlwaysInsert(table, rawId, source, url, p, t) ==
  table \cup {[id |-> FreshId(table, source, url), rawListingId |-> rawId,
               source |-> source, sourceUrl |-> url, f |-> ListingFields(p),
               firstSeenAt |-> t, lastSeenAt |-> t]}

\* variant: the update branch leaves lastSeenAt as it was
UpsertNormalized_KeepLastSeen(table, rawId, source, url, p, t) ==
  IF RowsFor(table, source, url) # {}
  THEN {IF r.source = source /\ r.sourceUrl = url
        THEN [r EXCEPT !.rawListingId = rawId, !.f = ListingFields(p)]
        ELSE r : r \in table}
  ELSE table \cup {[id |-> FreshId(table, source, url), rawListingId |-> rawId,
                    source |-> source, sourceUrl |-> url, f |-> ListingFields(p),
                    firstSeenAt |-> t, lastSeenAt |-> t]}

\* prisma.normalizedListing.upsert keyed by source_sourceUrl
UpsertNormalized(table, rawId, source, url, p, t) ==
  IF RowsFor(table, source, url) # {}
  THEN {IF r.source = source /\ r.sourceUrl = url
        THEN [r EXCEPT !.rawListingId = rawId, !.f = ListingFields(p), !.lastSeenAt = t]
        ELSE r : r \in table}
  ELSE table \cup {[id |-> FreshId(table, source, url), rawListingId |-> rawId,
                    source |-> source, sourceUrl |-> url, f |-> ListingFields(p),
                    firstSeenAt |-> t, lastSeenAt |-> t]}

IngestOutcomes == {"ok", "fetchThrows", "parseThrows"}

ingestOne(source, url, content, outcome) ==
  LET raw1 == UpsertRaw(rawListings, source, url, content, now)
      rawId == (CHOOSE r \in RowsFor(raw1, source, url) : TRUE).id
      parsed == Parsed[content]
      raw2 == SetExtractedJson(raw1, rawId, parsed)
      norm1 == UpsertNormalized(normalized, rawId, source, url, parsed, now)
  IN
  /\ job = Idle
  /\ Cardinality(raw1) <= MaxRows
  /\ CASE outcome = "fetchThrows" ->
            UNCHANGED <<rawListings, normalized, completed>>
       [] outcome = "parseThrows" ->
            /\ rawListings' = raw1
            /\ UNCHANGED <<normalized, completed>>
       [] OTHER ->
            /\ rawListings' = raw2
            /\ normalized' = norm1
            /\ completed' = completed \cup {<<source, url>>}
  /\ last' = [op |-> "ingest"]
  /\ UNCHANGED <<now, units, postings, changeLog, job>>

\* feed: the bodies each (source, url) may serve, as <<source, url, content>>
IngestOne(feed, outcomes) ==
  /\ \E k \in feed, outcome \in outcomes : ingestOne(k[1], k[2], k[3], outcome)
  /\ UNCHANGED orchVars

\* ------------------------------------------------------------- dedupe.ts
\* const normAddr = listing.address ? normalizeAddress(listing.address) : null
NormAddrOf(f) == IF TruthyAddr(f.address) THEN Some(NormalizedAddress[Val(f.address)]) ELSE Null

\* variant: the box is narrower than half a bucket on each side
InBox_Narrow(x, b) == ~IsNull(x) /\ Val(x) >= b * 10 - 4 /\ Val(x) <= b * 10 + 4

\* the where-clause of findCandidates for one unit
InBox(x, b) == ~IsNull(x) /\ Val(x) >= b * 10 - 10 /\ Val(x) <= b * 10 + 10

IsCandidate(u, normAddr, bucket) ==
  \/ TruthyAddr(normAddr) /\ u.canonicalAddress = normAddr
  \/ ~IsNull(bucket) /\ InBox(u.lat, Val(bucket)[1]) /\ InBox(u.lng, Val(bucket)[2])

\* ids of the rows findCandidates returns (in no particular order)
findCandidates(us, normAddr, bucket) ==
  IF ~TruthyAddr(normAddr) /\ IsNull(bucket) THEN {}
  ELSE {i \in 1..Len(us) : IsCandidate(us[i], normAddr, bucket)}

LowerLabel(x) ==
  CASE x = "2G" -> "2g"
    [] x = "3F" -> "3f"
    [] OTHER -> x

\* variant: the weights of the address and unit terms exchanged
scoreMatch_SwappedWeights(listing, candidate, normAddr, bucket) ==
  LET addr == IF TruthyAddr(normAddr) /\ candidate.canonicalAddress = normAddr THEN 30 ELSE 0
      unit == IF /\ TruthyStr(listing.unit)
                 /\ TruthyStr(candidate.canonicalUnit)
                 /\ LowerLabel(Val(listing.unit)) = LowerLabel(Val(candidate.canonicalUnit))
              THEN 40 ELSE 0
      geo == IF /\ ~IsNull(bucket)
                /\ ~IsNull(candidate.lat)
                /\ ~IsNull(candidate.lng)
                /\ geoBucket(candidate.lat, candidate.lng) = bucket
             THEN 20 ELSE 0
      beds == IF /\ ~IsNull(listing.bedrooms)
                 /\ ~IsNull(candidate.bedrooms)
                 /\ Abs(Val(listing.bedrooms) - Val(candidate.bedrooms)) <= 1
                 /\ \/ IsNull(listing.bathrooms)
                    \/ IsNull(candidate.bathrooms)
                    \/ Abs(Val(listing.bathrooms) - Val(candidate.bathrooms)) <= 1
              THEN 10 ELSE 0
  IN addr + unit + geo + beds

\* variant: unit labels compared without toLowerCase
scoreMatch_CaseSensitive(listing, candidate, normAddr, bucket) ==
  LET addr == IF TruthyAddr(normAddr) /\ candidate.canonicalAddress = normAddr THEN 40 ELSE 0
      unit == IF /\ TruthyStr(listing.unit)
                 /\ TruthyStr(candidate.canonicalUnit)
                 /\ Val(listing.unit) = Val(candidate.canonicalUnit)
              THEN 30 ELSE 0
      geo == IF /\ ~IsNull(bucket)
                /\ ~IsNull(candidate.lat)
                /\ ~IsNull(candidate.lng)
                /\ geoBucket(candidate.lat, candidate.lng) = bucket
             THEN 20 ELSE 0
      beds == IF /\ ~IsNull(listing.bedrooms)
                 /\ ~IsNull(candidate.bedrooms)
                 /\ Abs(Val(listing.bedrooms) - Val(candidate.bedrooms)) <= 1
                 /\ \/ IsNull(listing.bathrooms)
                    \/ IsNull(candidate.bathrooms)
                    \/ Abs(Val(listing.bathrooms) - Val(candidate.bathrooms)) <= 1
              THEN 10 ELSE 0
  IN addr + unit + geo + beds

scoreMatch(listing, candidate, normAddr, bucket) ==
  LET addr == IF TruthyAddr(normAddr) /\ candidate.canonicalAddress = normAddr THEN 40 ELSE 0
      unit == IF /\ TruthyStr(listing.unit)
                 /\ TruthyStr(candidate.canonicalUnit)
                 /\ LowerLabel(Val(listing.unit)) = LowerLabel(Val(candidate.canonicalUnit))
              THEN 30 ELSE 0
      geo == IF /\ ~IsNull(bucket)
                /\ ~IsNull(candidate.lat)
                /\ ~IsNull(candidate.lng)
                /\ geoBucket(candidate.lat, candidate.lng) = bucket
             THEN 20 ELSE 0
      beds == IF /\ ~IsNull(listing.bedrooms)
                 /\ ~IsNull(candidate.bedrooms)
                 /\ Abs(Val(listing.bedrooms) - Val(candidate.bedrooms)) <= 1
                 /\ \/ IsNull(listing.bathrooms)
                    \/ IsNull(candidate.bathrooms)
                    \/ Abs(Val(listing.bathrooms) - Val(candidate.bathrooms)) <= 1
              THEN 10 ELSE 0
  IN addr + unit + geo + beds

\* variant: score >= bestCandidate.score, so the last of several equal scores wins
RECURSIVE BestCandidate_LastWins(_, _, _, _)
BestCandidate_LastWins(order, score, i, best) ==
  IF i > Len(order) THEN best
  ELSE LET c == order[i]
       IN IF score[c] >= 60 /\ (IsNull(best) \/ score[c] >= Val(best).score)
          THEN BestCandidate_LastWins(order, score, i + 1, Some([id |-> c, score |-> score[c]]))
          ELSE BestCandidate_LastWins(order, score, i + 1, best)

\* the loop over the candidates, in the order the query returned them
RECURSIVE BestCandidate(_, _, _, _)
BestCandidate(order, score, i, best) ==
  IF i > Len(order) THEN best
  ELSE LET c == order[i]
       IN IF score[c] >= 60 /\ (IsNull(best) \/ score[c] > Val(best).score)
          THEN BestCandidate(order, score, i + 1, Some([id |-> c, score |-> score[c]]))
          ELSE BestCandidate(order, score, i + 1, best)

\* prisma.unitPosting.upsert keyed by canonicalUnitId_normalizedListingId
UpsertPosting(table, cu, nl, score) ==
  IF \E p \in table : p.canonicalUnitId = cu /\ p.normalizedListingId = nl
  THEN {IF p.canonicalUnitId = cu /\ p.normalizedListingId = nl
        THEN [p EXCEPT !.matchScore = score] ELSE p : p \in table}
  ELSE table \cup {[canonicalUnitId |-> cu, normalizedListingId |-> nl, matchScore |-> score]}

\* variant: the unit is overwritten first, so the old value logged is the new one
detectAndLogChanges_AfterOverwrite(canonical, cu, listing) ==
  LET price == IF /\ ~IsNull(listing.f.rentGross)
                  /\ ~IsNull(canonical.bestRentGross)
                  /\ listing.f.rentGross # canonical.bestRentGross
               THEN <<[canonicalUnitId |-> cu, normalizedListingId |-> listing.id,
                       kind |-> "price_change",
                       payload |-> [oldRentGross |-> Val(listing.f.rentGross),
                                    newRentGross |-> Val(listing.f.rentGross)]]>>
               ELSE <<>>
      fee == IF /\ ~IsNull(listing.f.brokerFee)
                /\ ~IsNull(canonical.brokerFee)
                /\ listing.f.brokerFee # canonical.brokerFee
             THEN <<[canonicalUnitId |-> cu, normalizedListingId |-> listing.id,
                     kind |-> "field_change",
                     payload |-> [field |-> "brokerFee",
                                  oldValue |-> Val(listing.f.brokerFee),
                                  newValue |-> Val(listing.f.brokerFee)]]>>
             ELSE <<>>
  IN price \o fee

\* variant: the unit's side is not tested for null
detectAndLogChanges_NoNullCheck(canonical, cu, listing) ==
  LET price == IF /\ ~IsNull(listing.f.rentGross)
                  /\ listing.f.rentGross # canonical.bestRentGross
               THEN <<[canonicalUnitId |-> cu, normalizedListingId |-> listing.id,
                       kind |-> "price_change",
                       payload |-> [oldRentGross |-> canonical.bestRentGross,
                                    newRentGross |-> Val(listing.f.rentGross)]]>>
               ELSE <<>>
      fee == IF /\ ~IsNull(listing.f.brokerFee)
                /\ listing.f.brokerFee # canonical.brokerFee
             THEN <<[canonicalUnitId |-> cu, normalizedListingId |-> listing.id,
                     kind |-> "field_change",
                     payload |-> [field |-> "brokerFee",
                                  oldValue |-> canonical.brokerFee,
                                  newValue |-> Val(listing.f.brokerFee)]]>>
             ELSE <<>>
  IN price \o fee

\* rows detectAndLogChanges appends for the unit as it is stored when it runs
detectAndLogChanges(canonical, cu, listing) ==
  LET price == IF /\ ~IsNull(listing.f.rentGross)
                  /\ ~IsNull(canonical.bestRentGross)
                  /\ listing.f.rentGross # canonical.bestRentGross
               THEN <<[canonicalUnitId |-> cu, normalizedListingId |-> listing.id,
                       kind |-> "price_change",
                       payload |-> [oldRentGross |-> Val(canonical.bestRentGross),
                                    newRentGross |-> Val(listing.f.rentGross)]]>>
               ELSE <<>>
      fee == IF /\ ~IsNull(listing.f.brokerFee)
                /\ ~IsNull(canonical.brokerFee)
                /\ listing.f.brokerFee # canonical.brokerFee
             THEN <<[canonicalUnitId |-> cu, normalizedListingId |-> listing.id,
                     kind |-> "field_change",
                     payload |-> [field |-> "brokerFee",
                                  oldValue |-> Val(canonical.brokerFee),
                                  newValue |-> Val(listing.f.brokerFee)]]>>
             ELSE <<>>
  IN price \o fee

\* prisma.canonicalUnit.update({ data: { lastSeenAt: listing.lastSeenAt } })
AttachUpdate(u, listing) == [u EXCEPT !.lastSeenAt = listing.lastSeenAt]

\* variant: activeState left to the column default
SeedUnit_DefaultState(listing, normAddr) ==
  [canonicalAddress |-> normAddr, canonicalUnit |-> listing.f.unit,
   neighborhood |-> listing.f.neighborhood, borough |-> listing.f.borough,
   lat |-> listing.f.lat, lng |-> listing.f.lng,
   bedrooms |-> listing.f.bedrooms, bathrooms |-> listing.f.bathrooms,
   bestRentGross |-> listing.f.rentGross,
   bestRentNetEffective |-> listing.f.rentNetEffective,
   brokerFee |-> listing.f.brokerFee,
   activeState |-> "unknown", lastSeenAt |-> listing.lastSeenAt]

\* prisma.canonicalUnit.create of the else-branch
SeedUnit(listing, normAddr) ==
  [canonicalAddress |-> normAddr, canonicalUnit |-> listing.f.unit,
   neighborhood |-> listing.f.neighborhood, borough |-> listing.f.borough,
   lat |-> listing.f.lat, lng |-> listing.f.lng,
   bedrooms |-> listing.f.bedrooms, bathrooms |-> listing.f.bathrooms,
   bestRentGross |-> listing.f.rentGross,
   bestRentNetEffective |-> listing.f.rentNetEffective,
   brokerFee |-> listing.f.brokerFee,
   activeState |-> "active", lastSeenAt |-> listing.lastSeenAt]

RECURSIVE Orders(_)
Orders(S) == IF S = {} THEN {<<>>} ELSE UNION {{<<x>> \o o : o \in Orders(S \ {x})} : x \in S}

Scores(listing) ==
  [i \in 1..Len(units) |->
     scoreMatch(listing.f, units[i], NormAddrOf(listing.f), geoBucket(listing.f.lat, listing.f.lng))]

\* one call dedupeAndUpsertCanonical(id); order is the order of the query result
dedupeAndUpsertCanonical(id, order) ==
  LET found == {r \in normalized : r.id = id}
  IN IF found = {}
     THEN /\ last' = [op |-> "dedupe", listing |-> id, found |-> FALSE]
          /\ UNCHANGED <<units, postings, changeLog>>
     ELSE LET listing == CHOOSE r \in found : TRUE
              normAddr == NormAddrOf(listing.f)
              best == BestCandidate(order, Scores(listing), 1, Null)
          IN IF ~IsNull(best)
             THEN LET cu == Val(best).id
                  IN /\ postings' = UpsertPosting(postings, cu, id, Val(best).score)
                     /\ changeLog' = changeLog \o detectAndLogChanges(units[cu], cu, listing)
                     /\ units' = [units EXCEPT ![cu] = AttachUpdate(units[cu], listing)]
                     /\ last' = [op |-> "dedupe", listing |-> id, found |-> TRUE,
                                 order |-> order, createdNew |-> FALSE, unit |-> cu]
             ELSE /\ units' = Append(units, SeedUnit(listing, normAddr))
                  /\ postings' = postings \cup
                       {[canonicalUnitId |-> Len(units) + 1, normalizedListingId |-> id,
                         matchScore |-> 100]}
                  /\ UNCHANGED changeLog
                  /\ last' = [op |-> "dedupe", listing |-> id, found |-> TRUE,
                              order |-> order, createdNew |-> TRUE, unit |-> Len(units) + 1]

CandidateOrders(id) ==
  LET found == {r \in normalized : r.id = id}
  IN IF found = {} THEN {<<>>}
     ELSE LET listing == CHOOSE r \in found : TRUE
          IN Orders(findCandidates(units, NormAddrOf(listing.f),
                                   geoBucket(listing.f.lat, listing.f.lng)))

WithinBounds == Len(units') <= MaxUnits /\ Len(changeLog') <= MaxLog

MissingId == <<"none", "none", 0>>

\* a caller (worker CLI, import route, crawler) dedupes one listing
DedupeAndUpsertCanonical ==
  /\ job = Idle
  /\ \E id \in {r.id : r \in normalized} \cup {MissingId} :
       \E order \in CandidateOrders(id) : dedupeAndUpsertCanonical(id, order)
  /\ WithinBounds
  /\ UNCHANGED <<now, rawListings, normalized, job, completed>>
  /\ UNCHANGED orchVars

\* ------------------------------------------------------ dedupe.ts: dedupeAll
PostingsOf(cu) == {p \in postings : p.canonicalUnitId = cu}
ListingById(id) == CHOOSE r \in normalized : r.id = id

\* the "best" fields one posting's listing would give the unit
BestFieldsFrom(u, listing) ==
  [u EXCEPT !.bestRentGross = listing.f.rentGross,
            !.bestRentNetEffective = listing.f.rentNetEffective,
            !.brokerFee = listing.f.brokerFee,
            !.neighborhood = listing.f.neighborhood,
            !.borough = listing.f.borough,
            !.lat = listing.f.lat,
            !.lng = listing.f.lng,
            !.bedrooms = listing.f.bedrooms,
            !.bathrooms = listing.f.bathrooms,
            !.lastSeenAt = listing.lastSeenAt]

\* variant: orderBy lastSeenAt asc, the posting whose listing was seen first
LatestPostings_Oldest(cu) ==
  {p \in PostingsOf(cu) :
     \A q \in PostingsOf(cu) :
       ListingById(q.normalizedListingId).lastSeenAt >= ListingById(p.normalizedListingId).lastSeenAt}

\* the rows findFirst may return: a posting whose listing was seen last
LatestPostings(cu) ==
  {p \in PostingsOf(cu) :
     \A q \in PostingsOf(cu) :
       ListingById(q.normalizedListingId).lastSeenAt <= ListingById(p.normalizedListingId).lastSeenAt}

updateCanonicalBestFields(cu) ==
  IF PostingsOf(cu) = {} THEN UNCHANGED units
  ELSE \E p \in LatestPostings(cu) :
         units' = [units EXCEPT ![cu] = BestFieldsFrom(units[cu], ListingById(p.normalizedListingId))]

\* listings without a posting, in an order the query may return (lastSeenAt desc)
PendingOrders ==
  LET pending == {r \in normalized : ~\E p \in postings : p.normalizedListingId = r.id}
  IN {o \in Orders({r.id : r \in pending}) :
        \A i, j \in DOMAIN o :
          i < j => ListingById(o[i]).lastSeenAt >= ListingById(o[j]).lastSeenAt}

\* the second loop of dedupeAll starts from the distinct units of all postings
BestPhase(ps) ==
  LET ids == {p.canonicalUnitId : p \in ps}
  IN IF ids = {} THEN Idle ELSE [phase |-> "best", left |-> ids]

DedupeAllStart ==
  /\ job = Idle
  /\ \E queue \in PendingOrders :
       job' = IF queue = <<>> THEN BestPhase(postings)
              ELSE [phase |-> "dedupe", queue |-> queue]
  /\ last' = [op |-> "dedupeAllStart"]
  /\ UNCHANGED <<now, rawListings, normalized, units, postings, changeLog, completed>>
  /\ UNCHANGED orchVars

\* one iteration of the first loop
DedupeAllStep ==
  /\ job.phase = "dedupe"
  /\ \E order \in CandidateOrders(Head(job.queue)) :
       dedupeAndUpsertCanonical(Head(job.queue), order)
  /\ WithinBounds
  /\ job' = IF Tail(job.queue) = <<>> THEN BestPhase(postings')
            ELSE [phase |-> "dedupe", queue |-> Tail(job.queue)]
  /\ UNCHANGED <<now, rawListings, normalized, completed>>
  /\ UNCHANGED orchVars

\* one iteration of the second loop
DedupeAllBest ==
  /\ job.phase = "best"
  /\ \E cu \in job.left :
       /\ updateCanonicalBestFields(cu)
       /\ job' = IF job.left = {cu} THEN Idle ELSE [phase |-> "best", left |-> job.left \ {cu}]
       /\ last' = [op |-> "best", unit |-> cu]
  /\ UNCHANGED <<now, rawListings, normalized, postings, changeLog, completed>>
  /\ UNCHANGED orchVars

\* ------------------------------------------- freshness.ts: updateFreshness
\* the lastSeenAt filters of the three updates
ActiveRange(u) == u.lastSeenAt >= now - SevenDays
\* variant: gt instead of gte at the fourteen-day bound
UnknownRange_Exclusive(u) == u.lastSeenAt < now - SevenDays /\ u.lastSeenAt > now - FourteenDays
UnknownRange(u) == u.lastSeenAt < now - SevenDays /\ u.lastSeenAt >= now - FourteenDays
StaleRange(u) == u.lastSeenAt < now - FourteenDays

\* the where-clauses: the filter and "not already in this state"
ActiveWhere(u) == ActiveRange(u) /\ u.activeState # "active"
UnknownWhere(u) == UnknownRange(u) /\ u.activeState # "unknown"
\* variant: without the "not already in this state" guard
StaleWhere_NoGuard(u) == StaleRange(u)
StaleWhere(u) == StaleRange(u) /\ u.activeState # "stale"

\* the rows each where-clause selects
ActiveRows(us) == {i \in 1..Len(us) : ActiveWhere(us[i])}
UnknownRows(us) == {i \in 1..Len(us) : UnknownWhere(us[i])}
StaleRows(us) == {i \in 1..Len(us) : StaleWhere(us[i])}

\* prisma.canonicalUnit.updateMany({ where, data: { activeState } })
UpdateMany(us, rows, state) ==
  [i \in 1..Len(us) |-> IF i \in rows THEN [us[i] EXCEPT !.activeState = state] ELSE us[i]]

\* one call updateFreshness(): the three updates in their order
updateFreshness ==
  LET u1 == UpdateMany(units, ActiveRows(units), "active")
      u2 == UpdateMany(u1, UnknownRows(u1), "unknown")
      u3 == UpdateMany(u2, StaleRows(u2), "stale")
  IN /\ units' = u3
     /\ last' = [op |-> "freshness",
                 counts |-> <<Cardinality(ActiveRows(units)), Cardinality(UnknownRows(u1)),
                              Cardinality(StaleRows(u2))>>,
                 again |-> last.op = "freshness"]

\* a caller (worker CLI) runs updateFreshness on its own
UpdateFreshness ==
  /\ job = Idle
  /\ updateFreshness
  /\ UNCHANGED <<now, rawListings, normalized, postings, changeLog, job, completed>>
  /\ UNCHANGED orchVars

\* ------------------------------------------ firecrawlMap.ts: filterNewUrls
\* variant: the query leaves out the source, so a URL another source has counts as seen
filterNewUrls_AnySource(urls, source) ==
  IF urls = <<>> THEN <<>>
  ELSE LET existingSet == {r.sourceUrl : r \in {e \in normalized :
                                                  \E i \in DOMAIN urls : e.sourceUrl = urls[i]}}
       IN SelectSeq(urls, LAMBDA url : url \notin existingSet)

\* variant: nothing is filtered out
filterNewUrls_KeepsAll(urls, source) == urls

filterNewUrls(urls, source) ==
  IF urls = <<>> THEN <<>>
  ELSE LET existingSet == {r.sourceUrl : r \in {e \in normalized :
                                                  /\ e.source = source
                                                  /\ \E i \in DOMAIN urls : e.sourceUrl = urls[i]}}
       IN SelectSeq(urls, LAMBDA url : url \notin existingSet)

\* --------------------------------- registryCrawler.ts: runRegistryCrawler
MAX_LOOPS == 10

\* the keys of DISCOVERY_CONFIGS
DISCOVERY_CONFIGS == {"leasebreak", "streeteasy"}

\* the body the site serves at each listing URL of the model
PageOf(source, url) ==
  CASE source = "leasebreak" /\ url = "u1" -> "c1"
    [] source = "leasebreak" /\ url = "u2" -> "c4"
    [] OTHER -> "c3"

\* what `await dedupeAndUpsertCanonical(id)` is at the call site: the function
\* is declared Promise<void> and no path returns a value, so it is undefined
DedupeResult(op) == Null

\* result?.createdNew as a condition
CreatedNewOf(result) == IF IsNull(result) THEN FALSE ELSE Val(result).createdNew

Min(a, b) == IF a <= b THEN a ELSE b

\* the locals of a run at the start of runRegistryCrawler
RegistryLocals(opts, starting) ==
  [pc |-> "loop", mode |-> "registry",
   sources |-> opts.sources,
   targetCanonicalCount |-> opts.targetCanonicalCount,
   maxUrlsPerRun |-> opts.maxUrlsPerRun,
   batchSize |-> opts.batchSize,
   startingCanonicalCount |-> starting, endingCanonicalCount |-> 0,
   totalDiscovered |-> 0, totalNewUrls |-> 0, totalIngested |-> 0,
   totalCanonicalAdded |-> 0, totalErrors |-> 0,
   totalUrlsAttempted |-> 0, loop |-> 0,
   idx |-> 0, links |-> <<>>, batch |-> <<>>, normalizedId |-> MissingId, jobId |-> 0,
   \* bookkeeping of the run, not read by it
   created |-> 0, ingestCalls |-> 0, freshnessRuns |-> 0, known |-> {}, url |-> "",
   iterNew |-> 0, iterFiltered |-> 0]

\* prisma.scrapeJob.create with the column defaults
NewScrapeJob(source, mode, query, targetCount) ==
  [source |-> source, mode |-> mode, query |-> query, status |-> "active",
   targetCount |-> targetCount, discoveredCount |-> 0, ingestedCount |-> 0,
   canonicalAddedCount |-> 0]

\* entry from one of the positions `from`: count the units, return at once when
\* the target is met, else open a job
RegistryStart(options, from) ==
  /\ crawl.pc \in from
  /\ job = Idle
  /\ \E opts \in options :
       LET c0 == RegistryLocals(opts, Len(units))
       IN IF c0.startingCanonicalCount >= opts.targetCanonicalCount
          THEN /\ crawl' = [c0 EXCEPT !.pc = "returned",
                                      !.endingCanonicalCount = c0.startingCanonicalCount]
               /\ UNCHANGED scrapeJobs
          ELSE /\ Len(scrapeJobs) < MaxJobs
               /\ scrapeJobs' = Append(scrapeJobs,
                    NewScrapeJob(opts.sources, "seed_registry",
                                 <<"Fill registry to", opts.targetCanonicalCount>>,
                                 opts.targetCanonicalCount))
               /\ crawl' = [c0 EXCEPT !.jobId = Len(scrapeJobs) + 1]
  /\ last' = [op |-> "crawlStart"]
  /\ UNCHANGED <<now, rawListings, normalized, units, postings, changeLog, job, completed, net, inflight>>

\* the while condition, loop++, the count and the "Target reached!" break
RegistryLoop ==
  /\ crawl.pc = "loop" /\ crawl.mode = "registry"
  /\ crawl' =
       IF crawl.loop < MAX_LOOPS /\ crawl.totalUrlsAttempted < crawl.maxUrlsPerRun
       THEN IF Len(units) >= crawl.targetCanonicalCount
            THEN [crawl EXCEPT !.loop = @ + 1, !.pc = "freshness"]
            ELSE [crawl EXCEPT !.loop = @ + 1, !.pc = "source", !.idx = 1,
                               !.iterNew = 0, !.iterFiltered = 0]
       ELSE [crawl EXCEPT !.pc = "freshness"]
  /\ last' = [op |-> "loop"]
  /\ UNCHANGED <<now, rawListings, normalized, units, postings, changeLog, job, completed,
                 scrapeJobs, net, inflight>>

\* after the for over the sources: if (stats.totalNewUrls === 0) break
LoopEnd(c) == [c EXCEPT !.pc = IF c.totalNewUrls = 0 THEN "freshness" ELSE "loop"]

\* the head of the for over the sources and the mapViaFirecrawl call;
\* results[s] are the listingLinks the call may return for source s
RegistrySource(results) ==
  /\ crawl.pc = "source" /\ crawl.mode = "registry"
  /\ IF crawl.idx > Len(crawl.sources)
     THEN /\ crawl' = LoopEnd(crawl)
          /\ last' = [op |-> "sourcesDone"]
     ELSE LET sourceName == crawl.sources[crawl.idx]
          IN IF sourceName \notin DISCOVERY_CONFIGS
             THEN /\ crawl' = [crawl EXCEPT !.idx = @ + 1]
                  /\ last' = [op |-> "unknownSource"]
             ELSE IF crawl.totalUrlsAttempted >= crawl.maxUrlsPerRun
             THEN /\ crawl' = LoopEnd(crawl)
                  /\ last' = [op |-> "budgetBreak"]
             ELSE \/ /\ crawl' = [crawl EXCEPT !.idx = @ + 1]
                     /\ last' = [op |-> "map", source |-> sourceName, threw |-> TRUE]
                  \/ \E links \in results[sourceName] :
                       /\ crawl' = [crawl EXCEPT !.pc = "filter", !.links = links,
                                                 !.totalDiscovered = @ + Len(links)]
                       /\ last' = [op |-> "map", source |-> sourceName, threw |-> FALSE]
  /\ UNCHANGED <<now, rawListings, normalized, units, postings, changeLog, job, completed,
                 scrapeJobs, net, inflight>>

\* variant: the batch is cut to batchSize only, not to the remaining budget
BatchOf_NoRemaining(newUrls, batchSize, remaining) == SubSeq(newUrls, 1, Min(batchSize, Len(newUrls)))

\* newUrls.slice(0, Math.min(batchSize, remaining))
BatchOf(newUrls, batchSize, remaining) ==
  SubSeq(newUrls, 1, Min(Min(batchSize, remaining), Len(newUrls)))

\* filterNewUrls, the "No new URLs" continue and the batch
RegistryFilter ==
  /\ crawl.pc = "filter" /\ crawl.mode = "registry"
  /\ LET sourceName == crawl.sources[crawl.idx]
         newUrls == filterNewUrls(crawl.links, sourceName)
         batch == BatchOf(newUrls, crawl.batchSize,
                          crawl.maxUrlsPerRun - crawl.totalUrlsAttempted)
         c1 == [crawl EXCEPT !.totalNewUrls = @ + Len(newUrls),
                             !.iterNew = @ + Len(newUrls), !.iterFiltered = @ + 1,
                             !.known = {r.sourceUrl : r \in {e \in normalized :
                                                               e.source = sourceName}}]
     IN /\ crawl' = IF newUrls = <<>> \/ batch = <<>>
                    THEN [c1 EXCEPT !.pc = "source", !.idx = @ + 1]
                    ELSE [c1 EXCEPT !.pc = "ingest", !.batch = batch]
        /\ last' = [op |-> "filter", source |-> sourceName, urls |-> crawl.links,
                    result |-> newUrls]
  /\ UNCHANGED <<now, rawListings, normalized, units, postings, changeLog, job, completed,
                 scrapeJobs, net, inflight>>

\* the end of one iteration of the for over the batch: the mid-batch break
\* leaves the batch loop, and the for over the sources goes on
AfterUrl(c) ==
  IF c.totalCanonicalAdded + c.startingCanonicalCount >= c.targetCanonicalCount
  THEN [c EXCEPT !.pc = "source", !.idx = @ + 1, !.batch = <<>>]
  ELSE IF Tail(c.batch) = <<>>
  THEN [c EXCEPT !.pc = "source", !.idx = @ + 1, !.batch = <<>>]
  ELSE [c EXCEPT !.pc = "ingest", !.batch = Tail(c.batch)]

\* totalUrlsAttempted++ and the ingestOne call for the next URL of the batch
RegistryIngest(outcomes) ==
  /\ crawl.pc = "ingest" /\ crawl.mode = "registry"
  /\ LET sourceName == crawl.sources[crawl.idx]
         url == Head(crawl.batch)
         c1 == [crawl EXCEPT !.totalUrlsAttempted = @ + 1, !.ingestCalls = @ + 1,
                             !.url = url]
     IN \E outcome \in outcomes :
          /\ ingestOne(sourceName, url, PageOf(sourceName, url), outcome)
          /\ crawl' =
               IF outcome = "ok"
               THEN [c1 EXCEPT !.totalIngested = @ + 1, !.pc = "dedupe",
                               !.normalizedId =
                                  (CHOOSE r \in RowsFor(normalized', sourceName, url) : TRUE).id]
               ELSE AfterUrl([c1 EXCEPT !.totalErrors = @ + 1])
  /\ UNCHANGED <<scrapeJobs, net, inflight>>

\* the dedupe call on the listing just ingested and the count of its result
RegistryDedupe ==
  /\ crawl.pc = "dedupe" /\ crawl.mode = "registry"
  /\ \E order \in CandidateOrders(crawl.normalizedId) :
       dedupeAndUpsertCanonical(crawl.normalizedId, order)
  /\ crawl' =
       AfterUrl([crawl EXCEPT
                   !.totalCanonicalAdded = IF CreatedNewOf(DedupeResult(last')) THEN @ + 1 ELSE @,
                   !.created = IF last'.createdNew THEN @ + 1 ELSE @])
  /\ UNCHANGED <<now, rawListings, normalized, job, completed, scrapeJobs, net, inflight>>

\* variant: the job is paused only when the target is exceeded
JobStatusAtEnd_Exceeded(endingCanonicalCount, targetCanonicalCount) ==
  IF endingCanonicalCount > targetCanonicalCount THEN "paused" ELSE "active"

\* status: stats.endingCanonicalCount >= targetCanonicalCount ? "paused" : "active"
JobStatusAtEnd(endingCanonicalCount, targetCanonicalCount) ==
  IF endingCanonicalCount >= targetCanonicalCount THEN "paused" ELSE "active"

\* after the loop: updateFreshness, the final count and the job update
RegistryFinish ==
  /\ crawl.pc = "freshness" /\ crawl.mode = "registry"
  /\ updateFreshness
  /\ crawl' = [crawl EXCEPT !.pc = "returned", !.endingCanonicalCount = Len(units),
                            !.freshnessRuns = @ + 1]
  /\ scrapeJobs' =
       [scrapeJobs EXCEPT ![crawl.jobId] =
          [@ EXCEPT !.discoveredCount = crawl.totalDiscovered,
                    !.ingestedCount = crawl.totalIngested,
                    !.canonicalAddedCount = crawl.totalCanonicalAdded,
                    !.status = JobStatusAtEnd(Len(units), crawl.targetCanonicalCount)]]
  /\ UNCHANGED <<now, rawListings, normalized, postings, changeLog, job, completed, net, inflight>>

\* ------------------------------------------- rateLimit.ts: waitForRateLimit
DEFAULT_DELAY_MS == 1000

\* Per-domain delay overrides in milliseconds
domainDelays == [d \in {"www.leasebreak.com", "leasebreak.com"} |-> 1200]

\* a URL is <<scheme, hostname, path>>; anything else does not parse as a URL
getDomain(url) ==
  IF Len(url) = 3 /\ url[1] \in {"http", "https"} THEN url[2] ELSE "unknown"

\* variant: the overrides are ignored
DelayOf_DefaultOnly(domain) == DEFAULT_DELAY_MS

\* domainDelays[domain] ?? DEFAULT_DELAY_MS
DelayOf(domain) ==
  IF domain \in DOMAIN domainDelays THEN domainDelays[domain] ELSE DEFAULT_DELAY_MS

Max(a, b) == IF a >= b THEN a ELSE b

\* a path of execution suspended on a setTimeout
Sleeping(n) == {c \in Callers : n.callers[c].pc \in {"limitSleep", "backoff"}}

\* timers fire in the order of their expiry, none before its delay has passed
NextTimer(n, c) ==
  /\ c \in Sleeping(n)
  /\ \A d \in Sleeping(n) : n.callers[c].wakeAt <= n.callers[d].wakeAt

\* lastRequestTime.set(domain, Date.now()) and the return to the caller at `ret`
Grant(n, c, domain, ret) ==
  [n EXCEPT !.lastRequestTime[domain] = n.clock,
            !.granted[domain] = Some(n.clock),
            !.callers[c].pc = ret,
            !.callers[c].trace = Append(@, "grant")]

\* waitForRateLimit up to its await: grant at once, or start the timer
waitForRateLimit(n, c, url, ret) ==
  LET domain == getDomain(url)
      delay == DelayOf(domain)
      lastT == n.lastRequestTime[domain]
      elapsed == n.clock - lastT
  IN IF elapsed < delay
     THEN [n EXCEPT !.callers[c].pc = "limitSleep",
                    !.callers[c].wakeAt = n.clock + (delay - elapsed),
                    !.callers[c].ret = ret]
     ELSE Grant(n, c, domain, ret)

\* what a step of caller c on URL url did to the limiter
LimiterOp(n, n2, c, url) ==
  IF n2.callers[c].pc = "limitSleep" /\ n.callers[c].pc # "limitSleep"
  THEN [op |-> "limitSleep", caller |-> c, domain |-> getDomain(url)]
  ELSE [op |-> "grant", caller |-> c, domain |-> getDomain(url), time |-> n2.clock,
        prev |-> n.granted[getDomain(url)], before |-> n.lastRequestTime]

\* a caller outside the limiter calls waitForRateLimit(url), `gap` ms after the
\* previous event and before any pending timer expires
LimiterCall(callers, urls, gaps) ==
  /\ net.calls < MaxCalls
  /\ \E c \in callers, url \in urls, gap \in gaps :
       /\ net.callers[c].pc = "idle"
       /\ \A d \in Sleeping(net) : net.clock + gap <= net.callers[d].wakeAt
       /\ LET n1 == [net EXCEPT !.clock = @ + gap, !.calls = @ + 1,
                                !.callers[c].url = url]
              n2 == waitForRateLimit(n1, c, url, "idle")
          IN /\ net' = n2
             /\ last' = LimiterOp(net, n2, c, url)
  /\ UNCHANGED <<now, rawListings, normalized, units, postings, changeLog, job, completed,
                 scrapeJobs, crawl, inflight>>

\* the timer of a waiting caller fires, `late` ms after its expiry at the
\* earliest: the rest of waitForRateLimit
LimiterWake(lates) ==
  /\ \E c \in Callers, late \in lates :
       /\ net.callers[c].pc = "limitSleep"
       /\ NextTimer(net, c)
       /\ LET n1 == [net EXCEPT !.clock = Max(@, net.callers[c].wakeAt) + late]
              n2 == Grant(n1, c, getDomain(net.callers[c].url), net.callers[c].ret)
          IN /\ net' = n2
             /\ last' = LimiterOp(net, n2, c, net.callers[c].url)
  /\ UNCHANGED <<now, rawListings, normalized, units, postings, changeLog, job, completed,
                 scrapeJobs, crawl, inflight>>

\* --------------------------------------- fetchWithPolicy.ts: fetchWithPolicy
DEFAULT_TIMEOUT_MS == 12000
MAX_RETRIES == 3
BASE_BACKOFF_MS == 500

RECURSIVE Pow2(_)
Pow2(n) == IF n = 0 THEN 1 ELSE 2 * Pow2(n - 1)

\* BASE_BACKOFF_MS * Math.pow(2, attempt - 1) + Math.random() * BASE_BACKOFF_MS,
\* with `jitter` the value of the random term
Backoff(attempt, jitter) == BASE_BACKOFF_MS * Pow2(attempt - 1) + jitter

\* outcomes of one fetch + response.text(): a response of any status, the abort
\* of the timeout, or another transport error
Failures == {"abort", "error"}

\* response.status of an attempt that got a response
StatusOf(outcome) == IF outcome = "response200" THEN 200 ELSE 500

\* variant: one attempt fewer
MoreAttempts_Exclusive(attempt, maxRetries) == attempt < maxRetries

\* the loop condition attempt <= maxRetries
MoreAttempts(attempt, maxRetries) == attempt <= maxRetries

\* variant: the option is ignored
SkipsLimiter_Never(opts) == FALSE

\* the skipRateLimit option, false by default
SkipsLimiter(opts) == opts.skipRateLimit

\* if (!skipRateLimit) await waitForRateLimit(url), then on to the fetch
BeforeFetch(n, c) ==
  IF SkipsLimiter(n.callers[c].opts)
  THEN [n EXCEPT !.callers[c].pc = "fetch"]
  ELSE waitForRateLimit(n, c, n.callers[c].url, "fetch")

\* the head of the for loop for the attempt number the caller holds: the throw
\* after the loop, the backoff timer of a retry, or straight on
IterationHead(n, c, jitter) ==
  LET k == n.callers[c]
  IN IF ~MoreAttempts(k.attempt, k.maxRetries)
     THEN [n EXCEPT !.callers[c].pc = "threw",
                    !.callers[c].result =
                       [url |-> k.url, attempts |-> k.maxRetries + 1, cause |-> k.lastError]]
     ELSE IF k.attempt > 0
     THEN [n EXCEPT !.callers[c].pc = "backoff",
                    !.callers[c].wakeAt = n.clock + Backoff(k.attempt, jitter),
                    !.callers[c].trace = Append(@, "backoff")]
     ELSE BeforeFetch(n, c)

\* a caller calls fetchWithPolicy(url, opts) and runs to its first await
FetchStart(callers, urls, options) ==
  /\ \E c \in callers, url \in urls, opts \in options :
       /\ net.callers[c].pc = "idle"
       /\ LET n1 == [net EXCEPT !.callers[c] =
                       [IdleCaller EXCEPT !.url = url, !.opts = opts,
                                          !.maxRetries = IF IsNull(opts.maxRetries)
                                                         THEN MAX_RETRIES
                                                         ELSE Val(opts.maxRetries),
                                          !.limiterAtStart = net.lastRequestTime]]
          IN net' = IterationHead(n1, c, 0)
       /\ last' = [op |-> "fetchStart", caller |-> c]
  /\ UNCHANGED <<now, rawListings, normalized, units, postings, changeLog, job, completed,
                 scrapeJobs, crawl, inflight>>

\* the backoff timer fires: on to the rate limit and the fetch
FetchBackoffWake(lates) ==
  /\ \E c \in Callers, late \in lates :
       /\ net.callers[c].pc = "backoff"
       /\ NextTimer(net, c)
       /\ net' = BeforeFetch([net EXCEPT !.clock = Max(@, net.callers[c].wakeAt) + late], c)
       /\ last' = [op |-> "backoffEnd", caller |-> c]
  /\ UNCHANGED <<now, rawListings, normalized, units, postings, changeLog, job, completed,
                 scrapeJobs, crawl, inflight>>

\* one fetch with its outcome after `took` ms (the timeout for an abort): the
\* return of the response, or the catch and the next turn of the loop
FetchAttempt(outcomes, tooks, jitters) ==
  /\ \E c \in Callers, outcome \in outcomes, took \in tooks, jitter \in jitters :
       /\ net.callers[c].pc = "fetch"
       /\ LET k == net.callers[c]
              n1 == [net EXCEPT !.clock = @ + (IF outcome = "abort"
                                               THEN DEFAULT_TIMEOUT_MS ELSE took),
                                !.callers[c].tried = Append(@, outcome),
                                !.callers[c].trace = Append(@, "attempt")]
          IN net' =
               IF outcome \in Failures
               THEN IterationHead([n1 EXCEPT !.callers[c].lastError = Some(outcome),
                                             !.callers[c].attempt = @ + 1], c, jitter)
               ELSE [n1 EXCEPT !.callers[c].pc = "returned",
                               !.callers[c].result =
                                  [httpStatus |-> StatusOf(outcome), content |-> "body",
                                   finalUrl |-> k.url]]
       /\ last' = [op |-> "attempt", caller |-> c, outcome |-> outcome]
  /\ UNCHANGED <<now, rawListings, normalized, units, postings, changeLog, job, completed,
                 scrapeJobs, crawl, inflight>>

\* ------------------------------ userTargetedCrawler: runUserTargetedCrawler
MAX_PER_SEARCH == 20

\* the keys of SOURCES in insertion order (Object.entries)
SOURCES == <<"leasebreak", "streeteasy">>

\* buildSearchQuery on the columns the model keeps: the fixed lead and the borough
buildSearchQuery(search) ==
  <<"NYC apartment for rent">> \o (IF IsNull(search.borough) THEN <<>> ELSE search.borough)

\* prisma.savedSearch.findMany({where: {isActive: true}})
ActiveSearches(table) == SelectSeq(table, LAMBDA s : s.isActive)

\* prisma.scrapeJob.findFirst: the first active row of that source, mode and query
FindFirstJob(jobs, source, mode, query) ==
  LET hits == {i \in DOMAIN jobs : /\ jobs[i].source = source /\ jobs[i].mode = mode
                                  /\ jobs[i].query = query /\ jobs[i].status = "active"}
  IN IF hits = {} THEN 0 ELSE CHOOSE i \in hits : \A j \in hits : i <= j

\* the locals of a run at the start of runUserTargetedCrawler
UserLocals(searches, hasKey) ==
  [pc |-> "usource", mode |-> "user", searches |-> searches, hasKey |-> hasKey,
   sIdx |-> 1, idx |-> 1, links |-> <<>>, batch |-> <<>>,
   normalizedId |-> MissingId, jobId |-> 0, ingested |-> 0, added |-> 0,
   \* bookkeeping of the run, not read by it
   created |-> 0, ingestCalls |-> 0, pairCalls |-> 0, freshnessRuns |-> 0,
   known |-> {}, url |-> ""]

\* entry: read the active searches; with none, return at once.  `tables` are the
\* contents of SavedSearch, process.env.FIRECRAWL_API_KEY is set or not
UserStart(tables, from) ==
  /\ crawl.pc \in from
  /\ job = Idle
  /\ \E table \in tables, hasKey \in BOOLEAN :
       LET c0 == UserLocals(ActiveSearches(table), hasKey)
       IN crawl' = IF c0.searches = <<>> THEN [c0 EXCEPT !.pc = "returned"] ELSE c0
  /\ last' = [op |-> "crawlStart"]
  /\ UNCHANGED <<now, rawListings, normalized, units, postings, changeLog, job, completed,
                 scrapeJobs, net, inflight>>

\* the next (search, source) pair after the current one
NextPair(c) ==
  IF c.idx < Len(SOURCES)
  THEN [c EXCEPT !.pc = "usource", !.idx = @ + 1, !.batch = <<>>]
  ELSE [c EXCEPT !.pc = "usource", !.sIdx = @ + 1, !.idx = 1, !.batch = <<>>]

\* the head of the two for loops, the job lookup or creation and the
\* mapViaFirecrawl call; results[s] are the listingLinks it may return
UserSource(results) ==
  /\ crawl.pc = "usource" /\ crawl.mode = "user"
  /\ IF crawl.sIdx > Len(crawl.searches)
     THEN /\ crawl' = [crawl EXCEPT !.pc = "ufreshness"]
          /\ last' = [op |-> "sourcesDone"]
          /\ UNCHANGED scrapeJobs
     ELSE LET sourceName == SOURCES[crawl.idx]
              query == buildSearchQuery(crawl.searches[crawl.sIdx])
              existingJob == FindFirstJob(scrapeJobs, sourceName, "user_targeted", query)
              jobId == IF existingJob # 0 THEN existingJob ELSE Len(scrapeJobs) + 1
          IN IF sourceName = "streeteasy" /\ ~crawl.hasKey
             THEN /\ crawl' = NextPair(crawl)
                  /\ last' = [op |-> "skipSource"]
                  /\ UNCHANGED scrapeJobs
             ELSE /\ scrapeJobs' =
                       IF existingJob # 0 THEN scrapeJobs
                       ELSE Append(scrapeJobs, NewScrapeJob(sourceName, "user_targeted",
                                                            query, MAX_PER_SEARCH))
                  /\ \/ /\ crawl' = NextPair(crawl)
                        /\ last' = [op |-> "map", source |-> sourceName, threw |-> TRUE]
                     \/ /\ crawl.hasKey
                        /\ \E links \in results[sourceName] :
                             crawl' = [crawl EXCEPT !.pc = "ufilter", !.links = links,
                                                    !.jobId = jobId]
                        /\ last' = [op |-> "map", source |-> sourceName, threw |-> FALSE]
  /\ UNCHANGED <<now, rawListings, normalized, units, postings, changeLog, job, completed, net, inflight>>

\* variant: the whole list of new URLs is ingested
UserBatchOf_NoCap(newUrls) == newUrls

\* newUrls.slice(0, MAX_PER_SEARCH)
UserBatchOf(newUrls) == SubSeq(newUrls, 1, Min(MAX_PER_SEARCH, Len(newUrls)))

\* filterNewUrls, the batch of at most MAX_PER_SEARCH and the empty-batch continue
UserFilter ==
  /\ crawl.pc = "ufilter" /\ crawl.mode = "user"
  /\ LET sourceName == SOURCES[crawl.idx]
         newUrls == filterNewUrls(crawl.links, sourceName)
         batch == UserBatchOf(newUrls)
         c1 == [crawl EXCEPT !.pairCalls = 0,
                             !.known = {r.sourceUrl : r \in {e \in normalized :
                                                               e.source = sourceName}}]
     IN /\ crawl' = IF batch = <<>>
                    THEN NextPair(c1)
                    ELSE [c1 EXCEPT !.pc = "uingest", !.batch = batch,
                                    !.ingested = 0, !.added = 0, !.created = 0]
        /\ last' = [op |-> "filter", source |-> sourceName, urls |-> crawl.links,
                    result |-> newUrls]
  /\ UNCHANGED <<now, rawListings, normalized, units, postings, changeLog, job, completed,
                 scrapeJobs, net, inflight>>

\* the end of one iteration of the for over the batch
AfterUserUrl(c) ==
  IF Tail(c.batch) = <<>>
  THEN [c EXCEPT !.pc = "ujob", !.batch = <<>>]
  ELSE [c EXCEPT !.pc = "uingest", !.batch = Tail(c.batch)]

\* the ingestOne call for the next URL of the batch
UserIngest(outcomes) ==
  /\ crawl.pc = "uingest" /\ crawl.mode = "user"
  /\ LET sourceName == SOURCES[crawl.idx]
         url == Head(crawl.batch)
         c1 == [crawl EXCEPT !.ingestCalls = @ + 1, !.pairCalls = @ + 1, !.url = url]
     IN \E outcome \in outcomes :
          /\ ingestOne(sourceName, url, PageOf(sourceName, url), outcome)
          /\ crawl' =
               IF outcome = "ok"
               THEN [c1 EXCEPT !.ingested = @ + 1, !.pc = "udedupe",
                               !.normalizedId =
                                  (CHOOSE r \in RowsFor(normalized', sourceName, url) : TRUE).id]
               ELSE AfterUserUrl(c1)
  /\ UNCHANGED <<scrapeJobs, net, inflight>>

\* the dedupe call on the listing just ingested: if (result?.createdNew) added++
UserDedupe ==
  /\ crawl.pc = "udedupe" /\ crawl.mode = "user"
  /\ \E order \in CandidateOrders(crawl.normalizedId) :
       dedupeAndUpsertCanonical(crawl.normalizedId, order)
  /\ crawl' =
       AfterUserUrl([crawl EXCEPT
                       !.added = IF CreatedNewOf(DedupeResult(last')) THEN @ + 1 ELSE @,
                       !.created = IF last'.createdNew THEN @ + 1 ELSE @])
  /\ UNCHANGED <<now, rawListings, normalized, job, completed, scrapeJobs, net, inflight>>

\* prisma.scrapeJob.update with the three increments
UserJobUpdate ==
  /\ crawl.pc = "ujob" /\ crawl.mode = "user"
  /\ scrapeJobs' =
       [scrapeJobs EXCEPT ![crawl.jobId] =
          [@ EXCEPT !.discoveredCount = @ + Len(crawl.links),
                    !.ingestedCount = @ + crawl.ingested,
                    !.canonicalAddedCount = @ + crawl.added]]
  /\ crawl' = NextPair(crawl)
  /\ last' = [op |-> "jobUpdate", job |-> crawl.jobId, added |-> crawl.added,
              created |-> crawl.created]
  /\ UNCHANGED <<now, rawListings, normalized, units, postings, changeLog, job, completed, net, inflight>>

\* after the loops: updateFreshness
UserFinish ==
  /\ crawl.pc = "ufreshness" /\ crawl.mode = "user"
  /\ updateFreshness
  /\ crawl' = [crawl EXCEPT !.pc = "returned", !.freshnessRuns = @ + 1]
  /\ UNCHANGED <<now, rawListings, normalized, postings, changeLog, job, completed,
                 scrapeJobs, net, inflight>>

\* ---------------------------------------------------------- specifications
IngestKeys == {<<"leasebreak", "u1">>, <<"leasebreak", "u2">>, <<"streeteasy", "u1">>}

\* ingestion alone: every (source, url) pair, re-fetched bodies, failures
IngestFeed == {<<k[1], k[2], c>> : k \in IngestKeys, c \in {"c1", "c2"}}
NextIngest ==
  \/ Tick(ShortTime)
  \/ IngestOne(IngestFeed, IngestOutcomes)

SpecIngest == Init /\ [][NextIngest]_vars

\* ingestion and matching at one instant
DedupeFeed ==
  {<<"leasebreak", "u1", "c1">>,
   <<"leasebreak", "u2", "c2">>, <<"leasebreak", "u2", "c4">>,
   <<"streeteasy", "u1", "c5">>, <<"streeteasy", "u1", "c3">>}
NextDedupe ==
  \/ IngestOne(DedupeFeed, {"ok"})
  \/ DedupeAndUpsertCanonical

SpecDedupe == Init /\ [][NextDedupe]_vars

\* matching and dedupeAll over listings seen at different times
TimeFeed == {<<"leasebreak", "u1", "c1">>, <<"streeteasy", "u1", "c1">>, <<"leasebreak", "u2", "c3">>}
NextTime ==
  \/ Tick(ShortTime)
  \/ IngestOne(TimeFeed, {"ok"})
  \/ DedupeAndUpsertCanonical
  \/ DedupeAllStart
  \/ DedupeAllStep
  \/ DedupeAllBest

SpecTime == Init /\ [][NextTime]_vars

\* units ageing over more than two weeks, reclassified by updateFreshness
FreshFeed == {<<"leasebreak", "u1", "c1">>, <<"leasebreak", "u2", "c4">>}
NextFresh ==
  \/ Tick(MaxTime)
  \/ IngestOne(FreshFeed, {"ok"})
  \/ DedupeAndUpsertCanonical
  \/ UpdateFreshness

SpecFresh == Init /\ [][NextFresh]_vars

\* scoreMatch on its own: a listing and a candidate unit drawn from value sets
ScoreListings ==
  [address : {Null, Some(Addr350Apt), Some(AddrAptOnly)},
   unit : {Null, Some(""), Some("2G"), Some("3F")},
   lat : {Null, Some(407128), Some(407119)},
   lng : {Null, Some(-740060)},
   bedrooms : {Null, Some(0), Some(2)},
   bathrooms : {Null, Some(2)}]

ScoreCandidates ==
  [canonicalAddress : {Null, Some(<<>>), Some(NormalizedAddress[Addr350Apt])},
   canonicalUnit : {Null, Some(""), Some("2g")},
   lat : {Null, Some(407132)},
   lng : {Null, Some(-740061)},
   bedrooms : {Null, Some(1), Some(3)},
   bathrooms : {Null, Some(3), Some(4)}]

EmptyStore ==
  /\ now = 0
  /\ rawListings = {}
  /\ normalized = {}
  /\ units = <<>>
  /\ postings = {}
  /\ changeLog = <<>>
  /\ job = Idle
  /\ completed = {}
  /\ scrapeJobs = <<>>
  /\ crawl = NotCrawling
  /\ net = NetIdle
  /\ inflight = NoCalls

InitScore ==
  /\ EmptyStore
  /\ \E l \in ScoreListings, c \in ScoreCandidates :
       last = [op |-> "scoreInput", listing |-> l, candidate |-> c]

ScoreMatchCall ==
  /\ last.op = "scoreInput"
  /\ last' = [op |-> "score", listing |-> last.listing, candidate |-> last.candidate,
              result |-> scoreMatch(last.listing, last.candidate, NormAddrOf(last.listing),
                                    geoBucket(last.listing.lat, last.listing.lng))]
  /\ UNCHANGED <<now, rawListings, normalized, units, postings, changeLog, job, completed>>
  /\ UNCHANGED orchVars

SpecScore == InitScore /\ [][ScoreMatchCall]_vars

\* change detection: a unit seeded by one listing, a second listing of the same
\* place (other rent, other fee flag) ingested and not yet matched
Rents == {Null, Some(0), Some(3200), Some(3500)}
Fees == {Null, Some(TRUE), Some(FALSE)}
DetectBody(rent, fee) == [Parsed["c1"] EXCEPT !.rentGross = rent, !.brokerFee = fee]

StoredListing(source, url, p) ==
  CHOOSE r \in UpsertNormalized({}, <<source, url, 0>>, source, url, p, 0) : TRUE

InitDetect ==
  \E r1 \in Rents, f1 \in Fees, r2 \in Rents, f2 \in Fees :
    LET seed == StoredListing("leasebreak", "u1", DetectBody(r1, f1))
        incoming == StoredListing("streeteasy", "u1", DetectBody(r2, f2))
    IN /\ now = 0
       /\ rawListings =
            {[id |-> l.rawListingId, source |-> l.source, sourceUrl |-> l.sourceUrl,
              fetchedAt |-> 0, rawContent |-> <<"c1", l.f.rentGross, l.f.brokerFee>>,
              extractedJson |-> Some(l.f)] : l \in {seed, incoming}}
       /\ normalized = {seed, incoming}
       /\ units = <<SeedUnit(seed, NormAddrOf(seed.f))>>
       /\ postings = {[canonicalUnitId |-> 1, normalizedListingId |-> seed.id, matchScore |-> 100]}
       /\ changeLog = <<>>
       /\ job = Idle
       /\ completed = {<<"leasebreak", "u1">>, <<"streeteasy", "u1">>}
       /\ last = [op |-> "init"]
       /\ scrapeJobs = <<>>
       /\ crawl = NotCrawling
       /\ net = NetIdle
       /\ inflight = NoCalls

SpecDetect == InitDetect /\ [][DedupeAndUpsertCanonical]_vars

\* one registry crawler at a time over the three listing pages of the model
RegistryOptions ==
  [sources : {<<"leasebreak", "streeteasy">>, <<"craigslist", "streeteasy">>},
   targetCanonicalCount : {1, 2, 3},
   maxUrlsPerRun : {1, 3},
   batchSize : {1, 2}]
MapResults ==
  [leasebreak |-> {<<>>, <<"u1", "u2">>, <<"u2", "u1">>},
   streeteasy |-> {<<>>, <<"u1">>}]
NextRegistry ==
  \/ RegistryStart(RegistryOptions, {"idle"})
  \/ RegistryLoop
  \/ RegistrySource(MapResults)
  \/ RegistryFilter
  \/ RegistryIngest(IngestOutcomes)
  \/ RegistryDedupe
  \/ RegistryFinish

SpecRegistry == Init /\ [][NextRegistry]_vars

\* the filler invoked again and again (worker CLI, cron), each run to its return
AgainOptions ==
  [sources : {<<"leasebreak", "streeteasy">>},
   targetCanonicalCount : {1, 2},
   maxUrlsPerRun : {1, 2},
   batchSize : {1}]

NextRegistryAgain ==
  \/ RegistryStart(AgainOptions, {"idle", "returned"})
  \/ RegistryLoop
  \/ RegistrySource(MapResults)
  \/ RegistryFilter
  \/ RegistryIngest(IngestOutcomes)
  \/ RegistryDedupe
  \/ RegistryFinish

SpecRegistryAgain == Init /\ [][NextRegistryAgain]_vars

\* contents of the SavedSearch table: none, one active search, an active and
\* an inactive one, two active ones with the same query, two with different ones
SavedSearchTables ==
  LET s(name, active, borough) == [name |-> name, isActive |-> active, borough |-> borough]
  IN {<<>>,
      <<s("a", TRUE, Null)>>,
      <<s("a", TRUE, Null), s("b", FALSE, Some("Brooklyn"))>>,
      <<s("a", TRUE, Null), s("b", TRUE, Null)>>,
      <<s("a", FALSE, Null), s("b", TRUE, Some("Brooklyn")), s("c", TRUE, Null)>>}

\* one run of either orchestrator on an empty store
NextCrawl ==
  \/ RegistryStart(RegistryOptions, {"idle"})
  \/ RegistryLoop
  \/ RegistrySource(MapResults)
  \/ RegistryFilter
  \/ RegistryIngest(IngestOutcomes)
  \/ RegistryDedupe
  \/ RegistryFinish
  \/ UserStart(SavedSearchTables, {"idle"})
  \/ UserSource(MapResults)
  \/ UserFilter
  \/ UserIngest(IngestOutcomes)
  \/ UserDedupe
  \/ UserJobUpdate
  \/ UserFinish

SpecCrawl == Init /\ [][NextCrawl]_vars

\* URLs handed to the limiter: two of one overridden domain, one of a default
\* domain, one that does not parse
LimiterUrls ==
  {<<"https", "www.leasebreak.com", "/a">>, <<"https", "www.leasebreak.com", "/b">>,
   <<"https", "streeteasy.com", "/c">>, <<"not a url">>}

\* milliseconds between one call and the next event
Gaps == {0, 700, 1200}

\* milliseconds by which a timer fires after its expiry
Lates == {0, 100}

\* one path of execution calling waitForRateLimit, each call awaited before the next
NextLimiterSeq ==
  \/ LimiterCall({"p"}, LimiterUrls, Gaps)
  \/ LimiterWake(Lates)

SpecLimiterSeq == Init /\ [][NextLimiterSeq]_vars

\* two paths of execution calling waitForRateLimit, their calls overlapping
NextLimiterPar ==
  \/ LimiterCall(Callers, LimiterUrls, Gaps)
  \/ LimiterWake(Lates)

SpecLimiterPar == Init /\ [][NextLimiterPar]_vars

\* options of a fetchWithPolicy call: maxRetries left out, 1 or 0
FetchOptions == [maxRetries : {<<>>, <<1>>, <<0>>}, skipRateLimit : BOOLEAN]

\* a response with status 200 or 500, the timeout, another transport error
FetchOutcomes == {"response200", "response500"} \cup Failures

\* the random term of the backoff, in [0, BASE_BACKOFF_MS)
Jitters == {0, 300}

\* milliseconds a fetch takes when it does not time out
Tooks == {100}

\* one fetchWithPolicy call
NextFetch ==
  \/ FetchStart({"p"}, LimiterUrls, FetchOptions)
  \/ FetchBackoffWake(Lates)
  \/ LimiterWake(Lates)
  \/ FetchAttempt(FetchOutcomes, Tooks, Jitters)

SpecFetch == Init /\ [][NextFetch]_vars

\* the run is a single async function on the event loop: each of its awaits
\* settles, so a step that can be taken is eventually taken
SpecRegistryFair == SpecRegistry /\ WF_vars(NextRegistry)

\* ------------------------------------------------------------------ claims
\* the step is a completed call of dedupeAndUpsertCanonical on a stored listing
DedupeStep == last'.op = "dedupe" /\ last'.found
StepListing == ListingById(last'.listing)
StepNormAddr == NormAddrOf(StepListing.f)
StepBucket == geoBucket(StepListing.f.lat, StepListing.f.lng)
StepCandidates == findCandidates(units, StepNormAddr, StepBucket)
\* the scores of the listing of the step against the units as stored before it
StepScores == Scores(StepListing)
AddedRows == SubSeq(changeLog', Len(changeLog) + 1, Len(changeLog'))
LogGrows == Len(changeLog') >= Len(changeLog) /\ SubSeq(changeLog', 1, Len(changeLog)) = changeLog
RowsOfKind(rows, kind) == {i \in DOMAIN rows : rows[i].kind = kind}

\* C1: the store holds at most one RawListing and at most one NormalizedListing
\* per (source, sourceUrl), and exactly one of each for every pair for which an
\* ingestOne call has completed.
C1_OneRowPerSourceUrl ==
  /\ \A k \in Sources \X Urls :
       /\ Cardinality(RowsFor(rawListings, k[1], k[2])) <= 1
       /\ Cardinality(RowsFor(normalized, k[1], k[2])) <= 1
  /\ \A k \in completed :
       /\ Cardinality(RowsFor(rawListings, k[1], k[2])) = 1
       /\ Cardinality(RowsFor(normalized, k[1], k[2])) = 1

\* a pair ingested again at a later time, next to another ingested pair
C1_Witness ==
  /\ \E r \in normalized : r.lastSeenAt > r.firstSeenAt
  /\ Cardinality(completed) >= 2
  /\ Cardinality(rawListings) > Cardinality(normalized)

\* C2: a call for a listing for which no existing unit qualifies (no candidate,
\* or none scoring at least 60) creates exactly one CanonicalUnit, seeded from
\* the listing with activeState "active", and exactly one UnitPosting linking
\* that unit to the listing with matchScore 100.
C2_CreatesUnitAndPosting ==
  [][(DedupeStep /\ \A i \in StepCandidates : StepScores[i] < 60) =>
       LET l == StepListing
           n == Len(units) + 1
       IN /\ Len(units') = n
          /\ SubSeq(units', 1, Len(units)) = units
          /\ units'[n].canonicalAddress = StepNormAddr
          /\ units'[n].canonicalUnit = l.f.unit
          /\ units'[n].neighborhood = l.f.neighborhood
          /\ units'[n].borough = l.f.borough
          /\ units'[n].lat = l.f.lat
          /\ units'[n].lng = l.f.lng
          /\ units'[n].bedrooms = l.f.bedrooms
          /\ units'[n].bathrooms = l.f.bathrooms
          /\ units'[n].bestRentGross = l.f.rentGross
          /\ units'[n].bestRentNetEffective = l.f.rentNetEffective
          /\ units'[n].brokerFee = l.f.brokerFee
          /\ units'[n].lastSeenAt = l.lastSeenAt
          /\ units'[n].activeState = "active"
          /\ postings' \ postings =
               {[canonicalUnitId |-> n, normalizedListingId |-> l.id, matchScore |-> 100]}
          /\ postings \subseteq postings'
          /\ changeLog' = changeLog]_vars

\* a unit created while another unit was a candidate scoring below 60
C2_Witness ==
  /\ last.op = "dedupe" /\ last.found /\ last.createdNew
  /\ Len(last.order) >= 1
  /\ last.unit = Len(units)
  /\ Len(units) >= 2

\* C3 as claimed: a listing whose normalized address equals the canonicalAddress
\* of an existing unit scores at least 60 against it from the address term alone
\* and is attached to that unit, no unit being created.
C3_AddressAloneAttaches ==
  [][(DedupeStep /\ TruthyAddr(StepNormAddr)) =>
       \A i \in 1..Len(units) :
         units[i].canonicalAddress = StepNormAddr =>
           /\ ~last'.createdNew
           /\ Len(units') = Len(units)]_vars

\* C3 amended: the address term contributes 40 to the score of such a unit; the
\* listing is attached to an existing unit, and no unit is created, when that
\* score reaches 60 (the address and at least 20 more from the other terms).
C3_AddressGivesForty ==
  [][(DedupeStep /\ TruthyAddr(StepNormAddr)) =>
       \A i \in 1..Len(units) :
         units[i].canonicalAddress = StepNormAddr =>
           /\ i \in StepCandidates
           /\ StepScores[i] >= 40
           /\ StepScores[i] >= 60 =>
                /\ ~last'.createdNew
                /\ Len(units') = Len(units)
                /\ last'.unit \in 1..Len(units)
                /\ StepScores[last'.unit] >= StepScores[i]
                /\ \E p \in postings' :
                     /\ p.canonicalUnitId = last'.unit
                     /\ p.normalizedListingId = StepListing.id]_vars

\* a listing of another URL attached to the unit that has its normalized address
C3_Witness ==
  /\ last.op = "dedupe" /\ last.found /\ ~last.createdNew
  /\ TruthyAddr(NormAddrOf(ListingById(last.listing).f))
  /\ units[last.unit].canonicalAddress = NormAddrOf(ListingById(last.listing).f)
  /\ \E p \in postings : p.canonicalUnitId = last.unit /\ p.matchScore = 100
                         /\ p.normalizedListingId # last.listing

\* C4: the listing is attached to the candidate with the highest score among
\* those scoring at least 60, the first such in the order of the query result
\* when several share it; a unit is created iff no candidate scores at least 60.
C4_HighestScoreFirstWins ==
  [][DedupeStep =>
       LET order == last'.order
           sc == StepScores
           ok == {k \in DOMAIN order : sc[order[k]] >= 60}
       IN /\ {order[k] : k \in DOMAIN order} = StepCandidates
          /\ last'.createdNew <=> ok = {}
          /\ ok # {} =>
               LET k == CHOOSE k \in ok :
                          /\ \A j \in ok : sc[order[j]] <= sc[order[k]]
                          /\ \A j \in ok : sc[order[j]] = sc[order[k]] => k <= j
               IN /\ last'.unit = order[k]
                  /\ Len(units') = Len(units)
                  /\ [canonicalUnitId |-> order[k], normalizedListingId |-> StepListing.id,
                      matchScore |-> sc[order[k]]] \in postings']_vars

\* two candidates tie at the highest score and the listing went to one of them
C4_Witness ==
  /\ last.op = "dedupe" /\ last.found /\ ~last.createdNew
  /\ \E i, j \in DOMAIN last.order :
       /\ i < j
       /\ Scores(ListingById(last.listing))[last.order[i]] >= 60
       /\ Scores(ListingById(last.listing))[last.order[i]]
            = Scores(ListingById(last.listing))[last.order[j]]
       /\ last.unit = last.order[i]

\* C5: scoreMatch is the sum of 40 (normalized address present and equal to the
\* candidate's canonicalAddress), 30 (both unit labels present and equal ignoring
\* case), 20 (the listing has a geo bucket and the candidate's own bucket equals
\* it) and 10 (both bedroom counts present and at most 0.5 apart, and a bathroom
\* count absent or both at most 0.5 apart); it is one of 0, 10, ..., 100.
\* A string is present when it is neither null nor empty.
C5_AddressTerm(l, c) ==
  LET a == IF IsNull(l.address) \/ Val(l.address) = <<>> THEN Null
           ELSE Some(NormalizedAddress[Val(l.address)])
  IN IF a # Null /\ Val(a) # <<>> /\ c.canonicalAddress = a THEN 40 ELSE 0
C5_UnitTerm(l, c) ==
  IF /\ l.unit # Null /\ l.unit # Some("")
     /\ c.canonicalUnit # Null /\ c.canonicalUnit # Some("")
     /\ LowerLabel(Val(l.unit)) = LowerLabel(Val(c.canonicalUnit))
  THEN 30 ELSE 0
C5_GeoTerm(l, c) ==
  IF /\ l.lat # Null /\ l.lng # Null /\ c.lat # Null /\ c.lng # Null
     /\ Round3(Val(l.lat)) = Round3(Val(c.lat))
     /\ Round3(Val(l.lng)) = Round3(Val(c.lng))
  THEN 20 ELSE 0
C5_BedsTerm(l, c) ==
  IF /\ l.bedrooms # Null /\ c.bedrooms # Null
     /\ Val(l.bedrooms) - Val(c.bedrooms) \in {-1, 0, 1}
     /\ \/ l.bathrooms = Null
        \/ c.bathrooms = Null
        \/ Val(l.bathrooms) - Val(c.bathrooms) \in {-1, 0, 1}
  THEN 10 ELSE 0

C5_ScoreIsSumOfTerms ==
  last.op = "score" =>
    /\ last.result = C5_AddressTerm(last.listing, last.candidate)
                       + C5_UnitTerm(last.listing, last.candidate)
                       + C5_GeoTerm(last.listing, last.candidate)
                       + C5_BedsTerm(last.listing, last.candidate)
    /\ last.result \in {10 * k : k \in 0..10}

\* all four terms scored: the maximum of 100
C5_Witness ==
  /\ last.op = "score"
  /\ last.result = 100
  /\ last.listing.unit # last.candidate.canonicalUnit
  /\ last.listing.lat # last.candidate.lat

\* C6: attaching a listing whose rentGross is non-null and differs from the
\* unit's non-null bestRentGross appends exactly one price_change row, carrying
\* the unit's bestRentGross as stored before the call and the listing's
\* rentGross; the row is written from the value not yet overwritten.
C6_OnePriceChangeRow ==
  [][(/\ DedupeStep
      /\ ~last'.createdNew
      /\ ~IsNull(StepListing.f.rentGross)
      /\ ~IsNull(units[last'.unit].bestRentGross)
      /\ StepListing.f.rentGross # units[last'.unit].bestRentGross) =>
       /\ LogGrows
       /\ Cardinality(RowsOfKind(AddedRows, "price_change")) = 1
       /\ \A i \in RowsOfKind(AddedRows, "price_change") :
            /\ AddedRows[i].canonicalUnitId = last'.unit
            /\ AddedRows[i].normalizedListingId = StepListing.id
            /\ AddedRows[i].payload.oldRentGross = Val(units[last'.unit].bestRentGross)
            /\ AddedRows[i].payload.newRentGross = Val(StepListing.f.rentGross)
            /\ AddedRows[i].payload.oldRentGross # AddedRows[i].payload.newRentGross
            /\ units'[last'.unit].bestRentGross
                 \in {Some(AddedRows[i].payload.oldRentGross),
                      Some(AddedRows[i].payload.newRentGross)}]_vars

\* a listing at 3500 attached to a unit believed at 3200, and the row is there
C6_Witness ==
  /\ last.op = "dedupe" /\ last.found /\ ~last.createdNew
  /\ changeLog # <<>>
  /\ \E i \in DOMAIN changeLog :
       /\ changeLog[i].kind = "price_change"
       /\ changeLog[i].canonicalUnitId = last.unit
       /\ changeLog[i].normalizedListingId = last.listing
       /\ changeLog[i].payload = [oldRentGross |-> 3200, newRentGross |-> 3500]

\* C7: detectAndLogChanges appends a price_change row iff the listing's rentGross
\* and the unit's bestRentGross are both non-null and differ, a field_change row
\* for brokerFee iff both brokerFee values are non-null and differ: one row per
\* differing field, at most two, none when a side is absent or the values agree.
C7_RowPerDifferingField ==
  [][(DedupeStep /\ ~last'.createdNew) =>
       LET u == units[last'.unit]
           l == StepListing
           priceDiffers == /\ l.f.rentGross # Null
                           /\ u.bestRentGross # Null
                           /\ l.f.rentGross # u.bestRentGross
           feeDiffers == /\ l.f.brokerFee # Null
                         /\ u.brokerFee # Null
                         /\ l.f.brokerFee # u.brokerFee
       IN /\ LogGrows
          /\ Len(AddedRows) <= 2
          /\ Len(AddedRows) = (IF priceDiffers THEN 1 ELSE 0) + (IF feeDiffers THEN 1 ELSE 0)
          /\ RowsOfKind(AddedRows, "price_change") # {} <=> priceDiffers
          /\ RowsOfKind(AddedRows, "field_change") # {} <=> feeDiffers
          /\ \A i \in RowsOfKind(AddedRows, "field_change") :
               /\ AddedRows[i].payload.field = "brokerFee"
               /\ AddedRows[i].payload.oldValue = Val(u.brokerFee)
               /\ AddedRows[i].payload.newValue = Val(l.f.brokerFee)
          /\ \A i \in DOMAIN AddedRows :
               AddedRows[i].kind \in {"price_change", "field_change"}]_vars

\* both fields differed and both rows were appended
C7_Witness ==
  /\ last.op = "dedupe" /\ last.found /\ ~last.createdNew
  /\ Len(changeLog) = 2
  /\ changeLog[1].kind = "price_change"
  /\ changeLog[2].kind = "field_change"
  /\ changeLog[1].normalizedListingId = last.listing
  /\ changeLog[2].normalizedListingId = last.listing

\* C8: over dedupeAndUpsertCanonical and dedupeAll a CanonicalUnit's lastSeenAt
\* never decreases, in any intermediate or final state.
C8_LastSeenAtNeverDecreases ==
  [][\A i \in 1..Len(units) : units'[i].lastSeenAt >= units[i].lastSeenAt]_vars

\* C9: right after updateFreshness every unit's activeState follows from its
\* lastSeenAt alone: "active" within the last 7 days, "unknown" older than 7 but
\* not older than 14 days, "stale" older than 14 days; the three ranges cover
\* every lastSeenAt and do not overlap.
C9_Age(u) == now - u.lastSeenAt
C9_StateOfAge(age) ==
  IF age <= 7 THEN "active" ELSE IF age <= 14 THEN "unknown" ELSE "stale"

C9_StateFollowsLastSeenAt ==
  /\ \A i \in 1..Len(units) :
       Cardinality({r \in {"a", "u", "s"} :
                      \/ r = "a" /\ ActiveRange(units[i])
                      \/ r = "u" /\ UnknownRange(units[i])
                      \/ r = "s" /\ StaleRange(units[i])}) = 1
  /\ last.op = "freshness" =>
       \A i \in 1..Len(units) : units[i].activeState = C9_StateOfAge(C9_Age(units[i]))

\* a run that took one unit from "active" to "unknown" and another to "stale"
C9_Witness ==
  /\ last.op = "freshness"
  /\ last.counts = <<0, 1, 1>>
  /\ \E j, k \in 1..Len(units) :
       /\ units[j].activeState = "unknown" /\ C9_Age(units[j]) \in 8..14
       /\ units[k].activeState = "stale" /\ C9_Age(units[k]) > 14

\* C10: a second run of updateFreshness right after a first, with no write and
\* no threshold crossed in between, affects zero rows in each of its three
\* updates and changes no unit; no run changes a column other than activeState.
C10_SecondRunIsNoOp ==
  /\ [](last.op = "freshness" /\ last.again => last.counts = <<0, 0, 0>>)
  /\ [][last'.op = "freshness" =>
          /\ Len(units') = Len(units)
          /\ \A i \in 1..Len(units) :
               units'[i] = [units[i] EXCEPT !.activeState = units'[i].activeState]
          /\ <<rawListings', normalized', postings', changeLog'>>
               = <<rawListings, normalized, postings, changeLog>>
          /\ last'.again => units' = units]_vars

\* a second run in a row over a unit the first run had to reclassify as stale
C10_Witness ==
  /\ last.op = "freshness" /\ last.again
  /\ \E i \in 1..Len(units) : units[i].activeState = "stale"
  /\ \E i \in 1..Len(units) : units[i].activeState = "active"

\* a run of runRegistryCrawler is under way
RegistryRunning == crawl.pc \notin {"idle", "returned"} /\ crawl.mode = "registry"

\* C11: once startingCanonicalCount plus the units the run has added reaches
\* targetCanonicalCount, the run discovers and ingests no further batch: no
\* later mapViaFirecrawl call and no later ingestOne call, for any source.
C11_NoCallAfterTarget ==
  [][(/\ RegistryRunning
      /\ crawl.startingCanonicalCount + crawl.created >= crawl.targetCanonicalCount) =>
       last'.op \notin {"map", "ingest"}]_vars

\* C12: runRegistryCrawler terminates whatever discovery returns and whichever
\* ingestions or discoveries fail; it runs at most MAX_LOOPS (10) iterations of
\* the outer loop and calls ingestOne at most maxUrlsPerRun times
\* (totalUrlsAttempted <= maxUrlsPerRun in every reachable state).
C12_TerminatesWithinBudget ==
  /\ [](crawl.pc # "idle" =>
          /\ crawl.loop <= MAX_LOOPS
          /\ crawl.totalUrlsAttempted <= crawl.maxUrlsPerRun
          /\ crawl.ingestCalls <= crawl.maxUrlsPerRun)
  /\ <>(crawl.pc = "returned")

\* a run that used its tenth iteration and its whole budget, with failures on the way
C12_Witness ==
  /\ crawl.pc = "returned"
  /\ crawl.loop = MAX_LOOPS
  /\ crawl.ingestCalls = crawl.maxUrlsPerRun
  /\ crawl.maxUrlsPerRun > 1
  /\ crawl.totalErrors > 0

\* the sources of the run that have a discovery configuration
ConfiguredSources(c) == {i \in DOMAIN c.sources : c.sources[i] \in DISCOVERY_CONFIGS}

\* C13: when in one iteration of the loop filterNewUrls gave no new URL for
\* every configured source, the loop ends with that iteration (no further
\* discovery), in the first iteration and in any later one.
C13_SaturationEndsLoop ==
  [][(/\ RegistryRunning
      /\ crawl.pc = "loop" /\ crawl.loop > 0
      /\ crawl.iterFiltered = Cardinality(ConfiguredSources(crawl))
      /\ crawl.iterNew = 0) =>
       crawl'.pc = "freshness"]_vars

\* C14: every invocation of runRegistryCrawler that returns has run
\* updateFreshness exactly once, after its last ingestion, whether the target
\* was met at entry, during the run, or not at all.
C14_FreshnessOncePerRun ==
  crawl.pc = "returned" => (crawl.freshnessRuns = 1 /\ last.op = "freshness")

\* C15: neither orchestrator calls ingestOne for a URL that had a
\* NormalizedListing of that source when the discovered list was filtered, and
\* filterNewUrls returns exactly the input URLs without a NormalizedListing of
\* the given source, in input order.
C15_OnlyUnseenUrlsIngested ==
  /\ (last.op = "ingest" /\ crawl.pc # "idle") => crawl.url \notin crawl.known
  /\ last.op = "filter" =>
       last.result = SelectSeq(last.urls,
                               LAMBDA u : RowsFor(normalized, last.source, u) = {})

\* an ingestOne call for a URL of a discovered list of which another URL was
\* already stored for that source and was filtered out
C15_Witness ==
  /\ last.op = "ingest" /\ crawl.pc # "idle"
  /\ \E i \in DOMAIN crawl.links : crawl.links[i] \in crawl.known
  /\ crawl.url \in {crawl.links[i] : i \in DOMAIN crawl.links}

\* the count of created units an orchestrator keeps: stats.totalCanonicalAdded
\* in runRegistryCrawler, `added` in runUserTargetedCrawler
AddedCounter(c) == IF c.mode = "registry" THEN c.totalCanonicalAdded ELSE c.added

\* C16: dedupeAndUpsertCanonical returns {createdNew, canonicalUnitId} with
\* createdNew true exactly when the call created a CanonicalUnit and
\* canonicalUnitId the unit the listing is attached to, so the crawlers' added
\* counters equal the number of units their dedupe calls created.
C16_ResultReportsCreation ==
  /\ (last.op = "dedupe" /\ last.found) =>
       DedupeResult(last) = Some([createdNew |-> last.createdNew,
                                  canonicalUnitId |-> last.unit])
  /\ crawl.pc # "idle" => AddedCounter(crawl) = crawl.created
  /\ last.op = "jobUpdate" => last.added = last.created

\* C17: for one caller calling waitForRateLimit sequentially, two consecutive
\* grants for the same domain are at least the domain's configured delay apart
\* (1000 ms, 1200 ms for leasebreak.com and www.leasebreak.com), and a call
\* records its grant time as the last-grant time of that domain only.
C17_SequentialGrantsSpaced ==
  last.op = "grant" =>
    /\ ~IsNull(last.prev) =>
         last.time - Val(last.prev) >=
           (IF last.domain \in {"leasebreak.com", "www.leasebreak.com"} THEN 1200 ELSE 1000)
    /\ net.lastRequestTime = [last.before EXCEPT ![last.domain] = last.time]

\* a second grant for www.leasebreak.com exactly 1200 ms after the first, with
\* another domain's grant time recorded before and left as it was
C17_Witness ==
  /\ last.op = "grant" /\ last.domain = "www.leasebreak.com"
  /\ ~IsNull(last.prev) /\ last.time - Val(last.prev) = 1200
  /\ net.lastRequestTime["streeteasy.com"] > 0
  /\ net.lastRequestTime["streeteasy.com"] # last.time

\* C18: with several callers inside waitForRateLimit for one domain at
\* overlapping times, no two grants for that domain are less than the domain's
\* delay apart.
C18_OverlappingGrantsSpaced ==
  \A d \in Hosts :
    (last.op = "grant" /\ last.domain = d /\ ~IsNull(last.prev)) =>
      Val(last.prev) + DelayOf(d) <= last.time

\* C19: fetchWithPolicy makes at most maxRetries + 1 attempts (4 by default)
\* and returns the result of the first attempt that does not fail; when every
\* attempt fails, by timeout or otherwise, it makes exactly maxRetries + 1
\* attempts and throws an error naming the URL, the attempt count and the last
\* failure.
C19_FirstSuccessOrAllAttempts ==
  \A c \in Callers :
    LET k == net.callers[c]
        most == IF IsNull(k.opts.maxRetries) THEN 4 ELSE Val(k.opts.maxRetries) + 1
        n == Len(k.tried)
    IN /\ n <= most
       /\ \A i \in 1 .. n - 1 : k.tried[i] \in {"abort", "error"}
       /\ k.pc = "returned" =>
            /\ n >= 1 /\ k.tried[n] \notin {"abort", "error"}
            /\ k.result = [httpStatus |-> StatusOf(k.tried[n]), content |-> "body",
                        finalUrl |-> k.url]
       /\ k.pc = "threw" =>
            /\ n = most /\ k.tried[n] \in {"abort", "error"}
            /\ k.result = [url |-> k.url, attempts |-> most, cause |-> Some(k.tried[n])]

\* a call with the default options that failed four times, by timeout and by
\* another error, and threw
C19_Witness ==
  \E c \in Callers :
    /\ net.callers[c].pc = "threw"
    /\ IsNull(net.callers[c].opts.maxRetries)
    /\ net.callers[c].tried = <<"error", "abort", "abort", "error">>

\* C20: in fetchWithPolicy every attempt, retries included, is preceded by its
\* own waitForRateLimit grant for the URL's domain, obtained after the
\* attempt's backoff sleep; with skipRateLimit no grant is requested and the
\* limiter's per-domain state stays as it was.
C20_GrantBeforeEveryAttempt ==
  \A c \in Callers :
    LET k == net.callers[c]
    IN k.pc \in {"backoff", "fetch", "returned", "threw"} =>
         IF k.opts.skipRateLimit
         THEN /\ \A i \in DOMAIN k.trace : k.trace[i] # "grant"
              /\ net.lastRequestTime = k.limiterAtStart
         ELSE /\ \A i \in DOMAIN k.trace :
                   k.trace[i] = "attempt" =>
                     /\ i > 1 /\ k.trace[i - 1] = "grant"
                     /\ i > 2 => k.trace[i - 2] = "backoff"
              /\ net.lastRequestTime[getDomain(k.url)] > k.limiterAtStart[getDomain(k.url)]
                   \/ k.tried = <<>>

\* a retry that went through its backoff, then waited for and got its own
\* grant, then succeeded
C20_Witness ==
  \E c \in Callers :
    /\ net.callers[c].pc = "returned"
    /\ ~net.callers[c].opts.skipRateLimit
    /\ net.callers[c].trace = <<"grant", "attempt", "backoff", "grant", "attempt">>
    /\ last.op = "attempt"

\* --------------------------- dedupe.ts: overlapping dedupeAndUpsertCanonical
\* The import route and the worker call dedupeAndUpsertCanonical without a lock
\* or a transaction, so the awaits of two calls interleave: each await of the
\* function is one step of the caller's call.
StoreOutcomes == {"ok", "storeThrows"}

CallsQuiet == \A p \in Procs : inflight[p].pc \in {"none", "done", "threw"}

\* dedupe.ts:48-57  findUnique + normalizeAddress + geoBucket
DedupeCallBegin(ids) ==
  /\ job = Idle
  /\ \E p \in Procs, id \in ids :
       /\ inflight[p].pc = "none"
       /\ LET found == {r \in normalized : r.id = id}
          IN IF found = {}
             THEN inflight' = [inflight EXCEPT ![p] = [pc |-> "done", fn |-> "dedupe", id |-> id]]
             ELSE inflight' = [inflight EXCEPT ![p] =
                    [pc |-> "candidates", fn |-> "dedupe", id |-> id,
                     listing |-> CHOOSE r \in found : TRUE]]
       /\ last' = [op |-> "dedupeBegin", listing |-> id, by |-> p]
  /\ UNCHANGED <<now, rawListings, normalized, units, postings, changeLog, job, completed>>
  /\ UNCHANGED <<scrapeJobs, crawl, net>>

\* dedupe.ts:62-71  findCandidates reads the units as stored now, then scoring
DedupeCallCandidates ==
  /\ \E p \in Procs :
       /\ inflight[p].pc = "candidates"
       /\ LET c == inflight[p]
              listing == c.listing
          IN \E order \in Orders(findCandidates(units, NormAddrOf(listing.f),
                                                geoBucket(listing.f.lat, listing.f.lng))) :
               LET best == BestCandidate(order, Scores(listing), 1, Null)
               IN inflight' = [inflight EXCEPT ![p] =
                    IF IsNull(best)
                    THEN [c EXCEPT !.pc = "createUnit"]
                    ELSE [pc |-> "posting", fn |-> "dedupe", id |-> c.id, listing |-> listing,
                          unit |-> Val(best).id, score |-> Val(best).score]]
       /\ last' = [op |-> "dedupeCandidates", listing |-> inflight[p].id, by |-> p]
  /\ UNCHANGED <<now, rawListings, normalized, units, postings, changeLog, job, completed>>
  /\ UNCHANGED <<scrapeJobs, crawl, net>>

\* dedupe.ts:79-92  unitPosting.upsert for the matched unit
DedupeCallPosting ==
  /\ \E p \in Procs :
       /\ inflight[p].pc = "posting"
       /\ postings' = UpsertPosting(postings, inflight[p].unit, inflight[p].id, inflight[p].score)
       /\ inflight' = [inflight EXCEPT ![p].pc = "detect"]
       /\ last' = [op |-> "dedupePosting", listing |-> inflight[p].id, by |-> p]
  /\ UNCHANGED <<now, rawListings, normalized, units, changeLog, job, completed>>
  /\ UNCHANGED <<scrapeJobs, crawl, net>>

\* dedupe.ts:95  detectAndLogChanges reads the unit as stored when it runs
DedupeCallDetect ==
  /\ \E p \in Procs :
       /\ inflight[p].pc = "detect"
       /\ changeLog' = changeLog \o
            detectAndLogChanges(units[inflight[p].unit], inflight[p].unit, inflight[p].listing)
       /\ Len(changeLog') <= MaxLog
       /\ inflight' = [inflight EXCEPT ![p].pc = "touch"]
       /\ last' = [op |-> "dedupeDetect", listing |-> inflight[p].id, by |-> p]
  /\ UNCHANGED <<now, rawListings, normalized, units, postings, job, completed>>
  /\ UNCHANGED <<scrapeJobs, crawl, net>>

\* dedupe.ts:98-103  canonicalUnit.update of the matched unit
DedupeCallTouch ==
  /\ \E p \in Procs :
       /\ inflight[p].pc = "touch"
       /\ units' = [units EXCEPT ![inflight[p].unit] =
                      AttachUpdate(units[inflight[p].unit], inflight[p].listing)]
       /\ inflight' = [inflight EXCEPT ![p].pc = "done"]
       /\ last' = [op |-> "dedupeTouch", listing |-> inflight[p].id, by |-> p,
                   createdNew |-> FALSE, unit |-> inflight[p].unit]
  /\ UNCHANGED <<now, rawListings, normalized, postings, changeLog, job, completed>>
  /\ UNCHANGED <<scrapeJobs, crawl, net>>

\* dedupe.ts:110-126  canonicalUnit.create, a write of its own
DedupeCallCreateUnit(outcomes) ==
  /\ \E p \in Procs, outcome \in outcomes :
       /\ inflight[p].pc = "createUnit"
       /\ IF outcome = "ok"
          THEN /\ units' = Append(units, SeedUnit(inflight[p].listing, NormAddrOf(inflight[p].listing.f)))
               /\ Len(units') <= MaxUnits
               /\ inflight' = [inflight EXCEPT ![p] =
                    [pc |-> "createPosting", fn |-> "dedupe", id |-> inflight[p].id,
                     listing |-> inflight[p].listing, unit |-> Len(units) + 1]]
          ELSE /\ UNCHANGED units
               /\ inflight' = [inflight EXCEPT ![p].pc = "threw"]
       /\ last' = [op |-> "dedupeCreateUnit", listing |-> inflight[p].id, by |-> p,
                   outcome |-> outcome]
  /\ UNCHANGED <<now, rawListings, normalized, postings, changeLog, job, completed>>
  /\ UNCHANGED <<scrapeJobs, crawl, net>>

\* dedupe.ts:128-134  unitPosting.create, a second write after the unit exists
DedupeCallCreatePosting(outcomes) ==
  /\ \E p \in Procs, outcome \in outcomes :
       /\ inflight[p].pc = "createPosting"
       /\ IF outcome = "ok"
          THEN /\ postings' = postings \cup
                    {[canonicalUnitId |-> inflight[p].unit,
                      normalizedListingId |-> inflight[p].id, matchScore |-> 100]}
               /\ inflight' = [inflight EXCEPT ![p].pc = "done"]
          ELSE /\ UNCHANGED postings
               /\ inflight' = [inflight EXCEPT ![p].pc = "threw"]
       /\ last' = [op |-> "dedupeCreatePosting", listing |-> inflight[p].id, by |-> p,
                   outcome |-> outcome, createdNew |-> TRUE, unit |-> inflight[p].unit]
  /\ UNCHANGED <<now, rawListings, normalized, units, changeLog, job, completed>>
  /\ UNCHANGED <<scrapeJobs, crawl, net>>

\* two sources post the same apartment; a third listing is elsewhere
RaceFeed == {<<"leasebreak", "u1", "c1">>, <<"streeteasy", "u1", "c1">>, <<"leasebreak", "u2", "c4">>}
NextDedupeRace ==
  \/ IngestOne(RaceFeed, {"ok"})
  \/ DedupeCallBegin({r.id : r \in normalized} \cup {MissingId})
  \/ DedupeCallCandidates
  \/ DedupeCallPosting
  \/ DedupeCallDetect
  \/ DedupeCallTouch
  \/ DedupeCallCreateUnit({"ok"})
  \/ DedupeCallCreatePosting({"ok"})
SpecDedupeRace == Init /\ [][NextDedupeRace]_vars

\* two listings that match each other: same normalized address and a score at
\* or above the threshold against the unit the other one would seed
Matching(r1, r2) ==
  /\ ~IsNull(r1.f.address) /\ ~IsNull(r2.f.address)
  /\ NormAddrOf(r1.f) = NormAddrOf(r2.f)
  /\ scoreMatch(r1.f, SeedUnit(r2, NormAddrOf(r2.f)), NormAddrOf(r1.f),
                geoBucket(r1.f.lat, r1.f.lng)) >= 60

\* C21: dedupe calls for two listings that match each other never leave the two
\* listings on two different canonical units, whatever the overlap of the calls
C21_MatchingListingsShareUnit ==
  CallsQuiet =>
    \A p1, p2 \in postings :
      (/\ p1.normalizedListingId # p2.normalizedListingId
       /\ Matching(ListingById(p1.normalizedListingId), ListingById(p2.normalizedListingId)))
      => p1.canonicalUnitId = p2.canonicalUnitId


\* the same calls when a write to the store may fail (connection loss, constraint)
NextDedupeFail ==
  \/ IngestOne(RaceFeed, {"ok"})
  \/ DedupeCallBegin({r.id : r \in normalized})
  \/ DedupeCallCandidates
  \/ DedupeCallPosting
  \/ DedupeCallDetect
  \/ DedupeCallTouch
  \/ DedupeCallCreateUnit(StoreOutcomes)
  \/ DedupeCallCreatePosting(StoreOutcomes)
SpecDedupeFail == Init /\ [][NextDedupeFail]_vars

\* C30: once no dedupe call is under way, every CanonicalUnit has at least one
\* UnitPosting, also after a store failure between the two creating writes
C30_EveryUnitHasPosting ==
  CallsQuiet => \A cu \in DOMAIN units : PostingsOf(cu) # {}


\* ------------------------------------ registryCrawler.ts: overlapping ingestOne
\* ingestOne holds no lock either: each awaited store call is one step.
\* registryCrawler.ts:459-462  const now = new Date(); the fetch is started
IngestCallBegin(feed) ==
  /\ job = Idle
  /\ \E p \in Procs, k \in {<<x[1], x[2]>> : x \in feed} :
       /\ inflight[p].pc = "none"
       /\ inflight' = [inflight EXCEPT ![p] =
            [pc |-> "rawUpsert", fn |-> "ingest", source |-> k[1], url |-> k[2], t |-> now]]
       /\ last' = [op |-> "ingestBegin", by |-> p]
  /\ UNCHANGED <<now, rawListings, normalized, units, postings, changeLog, job, completed>>
  /\ UNCHANGED <<scrapeJobs, crawl, net>>

\* registryCrawler.ts:462-488  the fetch resolves with a body (or rejects), then
\* prisma.rawListing.upsert
IngestCallRawUpsert(feed, outcomes) ==
  /\ \E p \in Procs, outcome \in outcomes \ {"parseThrows"} :
       /\ inflight[p].pc = "rawUpsert"
       /\ LET c == inflight[p]
          IN IF outcome = "fetchThrows"
             THEN /\ inflight' = [inflight EXCEPT ![p].pc = "threw"]
                  /\ UNCHANGED rawListings
             ELSE \E x \in feed :
                    /\ x[1] = c.source /\ x[2] = c.url
                    /\ rawListings' = UpsertRaw(rawListings, c.source, c.url, x[3], c.t)
                    /\ Cardinality(rawListings') <= MaxRows
                    /\ inflight' = [inflight EXCEPT ![p] =
                         [pc |-> "setExtracted", fn |-> "ingest", source |-> c.source,
                          url |-> c.url, t |-> c.t, content |-> x[3],
                          rawId |-> (CHOOSE r \in RowsFor(rawListings', c.source, c.url) : TRUE).id]]
       /\ last' = [op |-> "ingestRawUpsert", by |-> p, outcome |-> outcome]
  /\ UNCHANGED <<now, normalized, units, postings, changeLog, job, completed>>
  /\ UNCHANGED <<scrapeJobs, crawl, net>>

\* registryCrawler.ts:491-500  adapter.parse, then prisma.rawListing.update by id
IngestCallSetExtracted(outcomes) ==
  /\ \E p \in Procs, outcome \in outcomes \ {"fetchThrows"} :
       /\ inflight[p].pc = "setExtracted"
       /\ IF outcome = "parseThrows"
          THEN /\ inflight' = [inflight EXCEPT ![p].pc = "threw"]
               /\ UNCHANGED rawListings
          ELSE /\ rawListings' = SetExtractedJson(rawListings, inflight[p].rawId,
                                                  Parsed[inflight[p].content])
               /\ inflight' = [inflight EXCEPT ![p].pc = "normUpsert"]
       /\ last' = [op |-> "ingestSetExtracted", by |-> p, outcome |-> outcome]
  /\ UNCHANGED <<now, normalized, units, postings, changeLog, job, completed>>
  /\ UNCHANGED <<scrapeJobs, crawl, net>>

\* registryCrawler.ts:503-566  prisma.normalizedListing.upsert; return its id
IngestCallNormUpsert ==
  /\ \E p \in Procs :
       /\ inflight[p].pc = "normUpsert"
       /\ LET c == inflight[p]
          IN /\ normalized' = UpsertNormalized(normalized, c.rawId, c.source, c.url,
                                               Parsed[c.content], c.t)
             /\ completed' = completed \cup {<<c.source, c.url>>}
       /\ inflight' = [inflight EXCEPT ![p].pc = "done"]
       /\ last' = [op |-> "ingestNormUpsert", by |-> p]
  /\ UNCHANGED <<now, rawListings, units, postings, changeLog, job>>
  /\ UNCHANGED <<scrapeJobs, crawl, net>>

\* the page of a listing changes between two fetches (price edit)
IngestRaceFeed == {<<"leasebreak", "u1", "c1">>, <<"leasebreak", "u1", "c2">>,
                   <<"streeteasy", "u1", "c1">>}
NextIngestRace ==
  \/ Tick(ShortTime)
  \/ IngestCallBegin(IngestRaceFeed)
  \/ IngestCallRawUpsert(IngestRaceFeed, IngestOutcomes)
  \/ IngestCallSetExtracted(IngestOutcomes)
  \/ IngestCallNormUpsert
SpecIngestRace == Init /\ [][NextIngestRace]_vars

\* the stored rows of the call's key are exactly what call c wrote
RowsFromCall(c) ==
  /\ \A r \in RowsFor(rawListings, c.source, c.url) :
       /\ r.rawContent = c.content
       /\ r.fetchedAt = c.t
       /\ r.extractedJson = Some(Parsed[c.content])
  /\ \A r \in RowsFor(normalized, c.source, c.url) :
       /\ r.f = ListingFields(Parsed[c.content])
       /\ r.lastSeenAt = c.t

\* C22: after two overlapping ingestOne calls for one (source, url) have both
\* completed, the raw row's rawContent and extractedJson and the normalized
\* row's fields all come from one and the same call
C22_RowsFromOneCall ==
  (/\ \A p \in Procs : inflight[p].pc = "done" /\ inflight[p].fn = "ingest"
   /\ \A p, q \in Procs : inflight[p].source = inflight[q].source /\ inflight[p].url = inflight[q].url)
  => \E p \in Procs : RowsFromCall(inflight[p])


\* the caller has awaited the call; it may call again
IngestCallReturn ==
  /\ \E p \in Procs :
       /\ inflight[p].pc \in {"done", "threw"}
       /\ inflight[p].fn = "ingest"
       /\ inflight' = [inflight EXCEPT ![p] = NoCall]
       /\ last' = [op |-> "ingestReturn", by |-> p]
  /\ UNCHANGED <<now, rawListings, normalized, units, postings, changeLog, job, completed>>
  /\ UNCHANGED <<scrapeJobs, crawl, net>>

\* every call is awaited before the next one starts (worker CLI, crawl loops)
IngestCallBeginAwaited(feed) ==
  /\ \A p \in Procs : inflight[p].pc = "none"
  /\ IngestCallBegin(feed)

NextIngestSeq ==
  \/ Tick(ShortTime)
  \/ IngestCallBeginAwaited(IngestRaceFeed)
  \/ IngestCallRawUpsert(IngestRaceFeed, IngestOutcomes)
  \/ IngestCallSetExtracted(IngestOutcomes)
  \/ IngestCallNormUpsert
  \/ IngestCallReturn
SpecIngestSeq == Init /\ [][NextIngestSeq]_vars

\* C23: when an ingestOne call completes its normalizedListing.upsert, an
\* existing row of the (source, url) keeps its firstSeenAt and gets the call's
\* time as lastSeenAt, never an earlier one than it had; a first insert sets
\* firstSeenAt and lastSeenAt to the call's time
C23_SeenTimesOnUpsert ==
  [][\A p \in Procs :
       (inflight[p].pc = "normUpsert" /\ inflight'[p].pc = "done") =>
         LET c == inflight[p]
             old == RowsFor(normalized, c.source, c.url)
         IN /\ RowsFor(normalized', c.source, c.url) # {}
            /\ \A n \in RowsFor(normalized', c.source, c.url) :
                 IF old = {}
                 THEN n.firstSeenAt = c.t /\ n.lastSeenAt = c.t
                 ELSE \A r \in old : /\ n.firstSeenAt = r.firstSeenAt
                                     /\ n.lastSeenAt = c.t
                                     /\ n.lastSeenAt >= r.lastSeenAt]_vars

\* a call has just completed for a pair first inserted at an earlier time
C23_Witness ==
  \E p \in Procs :
    /\ inflight[p].pc = "done" /\ inflight[p].fn = "ingest"
    /\ last.op = "ingestNormUpsert"
    /\ \E r \in RowsFor(normalized, inflight[p].source, inflight[p].url) :
         r.firstSeenAt < r.lastSeenAt /\ r.lastSeenAt = inflight[p].t


\* ------------------------------- registryCrawler.ts: ingestAll / ingestAdapter
\* opts.limit ? discovered.slice(0, opts.limit) : discovered   (0 is falsy)
ToProcess(discovered, limit) ==
  IF IsNull(limit) \/ Val(limit) = 0 THEN discovered
  ELSE SubSeq(discovered, 1, Min(Val(limit), Len(discovered)))

\* streeteasy.ts:129-133  discover throws without FIRECRAWL_API_KEY
DiscoverThrows(adapter, hasKey) == adapter = "streeteasy" /\ ~hasKey

\* ingestOne rejects on a failed fetch, a failed parse or a rejected store call
IngestItemOutcomes == IngestOutcomes \cup {"storeThrows"}

\* what a rejected rawListing.upsert leaves behind is what a rejected fetch does
EffectOf(outcome) == IF outcome = "storeThrows" THEN "fetchThrows" ELSE outcome

IngestAllLocals(adapters, limit, hasKey) ==
  [pc |-> "adapter", mode |-> "ingestAll", adapters |-> adapters, limit |-> limit,
   hasKey |-> hasKey, ai |-> 1, discovered |-> <<>>, toProcess |-> <<>>, i |-> 1,
   success |-> 0, errors |-> 0,
   discovers |-> <<>>, calls |-> <<>>, finished |-> <<>>]

\* registryCrawler.ts:408-412  ingestAll(adapters, opts)
IngestAllStart(adapterLists, limits) ==
  /\ crawl.pc = "idle"
  /\ job = Idle
  /\ \E adapters \in adapterLists, limit \in limits, hasKey \in BOOLEAN :
       crawl' = IngestAllLocals(adapters, limit, hasKey)
  /\ last' = [op |-> "ingestAllStart"]
  /\ UNCHANGED <<now, rawListings, normalized, units, postings, changeLog, job, completed>>
  /\ UNCHANGED <<scrapeJobs, net, inflight>>

\* registryCrawler.ts:412-425  next adapter of the for loop: ingestAdapter awaits
\* adapter.discover() outside any try, then selects the candidates
IngestAdapterDiscover(results) ==
  /\ crawl.pc = "adapter" /\ crawl.mode = "ingestAll"
  /\ IF crawl.ai > Len(crawl.adapters)
     THEN /\ crawl' = [crawl EXCEPT !.pc = "returned"]
          /\ last' = [op |-> "ingestAllReturn"]
     ELSE LET adapter == crawl.adapters[crawl.ai]
          IN IF DiscoverThrows(adapter, crawl.hasKey)
             THEN /\ crawl' = [crawl EXCEPT !.pc = "threw",
                                            !.discovers = Append(@, adapter)]
                  /\ last' = [op |-> "discoverThrows", adapter |-> adapter]
             ELSE \E discovered \in results[adapter] :
                    /\ crawl' = [crawl EXCEPT !.pc = "item",
                                   !.discovered = discovered,
                                   !.toProcess = ToProcess(discovered, crawl.limit),
                                   !.i = 1, !.success = 0, !.errors = 0,
                                   !.discovers = Append(@, adapter)]
                    /\ last' = [op |-> "discover", adapter |-> adapter]
  /\ UNCHANGED <<now, rawListings, normalized, units, postings, changeLog, job, completed>>
  /\ UNCHANGED <<scrapeJobs, net, inflight>>

\* variant: the first failing candidate ends the loop (no try around ingestOne)
AfterItem_FailureEndsLoop(c, adapter, url, outcome) ==
  [c EXCEPT !.i = IF outcome = "ok" THEN @ + 1 ELSE Len(c.toProcess) + 1,
            !.success = IF outcome = "ok" THEN @ + 1 ELSE @,
            !.errors = IF outcome = "ok" THEN @ ELSE @ + 1,
            !.calls = Append(@, <<adapter, url>>)]

\* registryCrawler.ts:432-442  try { await ingestOne; success++ } catch { errors++ }
AfterItem(c, adapter, url, outcome) ==
  [c EXCEPT !.i = @ + 1,
            !.success = IF outcome = "ok" THEN @ + 1 ELSE @,
            !.errors = IF outcome = "ok" THEN @ ELSE @ + 1,
            !.calls = Append(@, <<adapter, url>>)]

\* registryCrawler.ts:431-443  one iteration of the for loop over toProcess
IngestAdapterItem(outcomes) ==
  /\ crawl.pc = "item" /\ crawl.mode = "ingestAll"
  /\ crawl.i <= Len(crawl.toProcess)
  /\ LET adapter == crawl.adapters[crawl.ai]
         url == crawl.toProcess[crawl.i]
     IN \E outcome \in outcomes :
          /\ ingestOne(adapter, url, PageOf(adapter, url), EffectOf(outcome))
          /\ crawl' = AfterItem(crawl, adapter, url, outcome)
  /\ UNCHANGED <<scrapeJobs, net, inflight>>

\* registryCrawler.ts:445-448  the loop is over: log the totals, return to ingestAll
IngestAdapterEnd ==
  /\ crawl.pc = "item" /\ crawl.mode = "ingestAll"
  /\ crawl.i > Len(crawl.toProcess)
  /\ crawl' = [crawl EXCEPT !.pc = "adapter", !.ai = @ + 1,
                 !.finished = Append(@, [adapter |-> crawl.adapters[crawl.ai],
                                         toProcess |-> crawl.toProcess,
                                         success |-> crawl.success,
                                         errors |-> crawl.errors])]
  /\ last' = [op |-> "adapterEnd"]
  /\ UNCHANGED <<now, rawListings, normalized, units, postings, changeLog, job, completed>>
  /\ UNCHANGED <<scrapeJobs, net, inflight>>

AdapterLists == {<<"leasebreak", "streeteasy">>, <<"streeteasy", "leasebreak">>, <<"leasebreak">>}
Limits == {Null, Some(0), Some(1)}
DiscoverResults ==
  [leasebreak |-> {<<>>, <<"u1", "u2">>, <<"u2", "u1">>},
   streeteasy |-> {<<"u1">>}]
NextIngestAll ==
  \/ IngestAllStart(AdapterLists, Limits)
  \/ IngestAdapterDiscover(DiscoverResults)
  \/ IngestAdapterItem(IngestItemOutcomes)
  \/ IngestAdapterEnd
SpecIngestAll == Init /\ [][NextIngestAll]_vars

IngestAllRunning == crawl.pc # "idle" /\ crawl.mode = "ingestAll"

\* the calls made so far for the adapter at position a of the list
CallsFor(c, adapter) == SelectSeq(c.calls, LAMBDA k : k[1] = adapter)

\* C24: ingestAdapter calls discover once and then ingestOne once per selected
\* candidate, in order, whatever the earlier calls threw; no ingestOne failure
\* leaves ingestAdapter, and successes plus errors is the number processed
C24_EveryCandidateProcessed ==
  IngestAllRunning =>
    /\ \A a \in DOMAIN crawl.adapters :
         Len(SelectSeq(crawl.discovers, LAMBDA d : d = crawl.adapters[a])) <= 1
    /\ \A n \in DOMAIN crawl.finished :
         LET f == crawl.finished[n]
         IN /\ CallsFor(crawl, f.adapter) = [k \in DOMAIN f.toProcess |-> <<f.adapter, f.toProcess[k]>>]
            /\ f.success + f.errors = Len(f.toProcess)
            /\ Len(SelectSeq(crawl.discovers, LAMBDA d : d = f.adapter)) = 1
    /\ crawl.pc = "item" =>
         /\ crawl.success + crawl.errors = crawl.i - 1
         /\ CallsFor(crawl, crawl.adapters[crawl.ai]) =
              [k \in 1..(crawl.i - 1) |-> <<crawl.adapters[crawl.ai], crawl.toProcess[k]>>]
    /\ crawl.pc = "threw" => last.op = "discoverThrows"

\* an adapter finished although two of its candidates failed, with a limit of 0
C24_Witness ==
  /\ IngestAllRunning
  /\ \E n \in DOMAIN crawl.finished :
       /\ crawl.finished[n].errors >= 1 /\ crawl.finished[n].success >= 1
       /\ Len(crawl.finished[n].toProcess) = 2
       /\ crawl.limit = Some(0)

\* C25: a failing discover of one adapter does not abort the others: once
\* ingestAll has ended, every adapter of the list has been discovered
C25_LaterAdaptersStillRun ==
  (IngestAllRunning /\ crawl.pc \in {"returned", "threw"}) =>
    \A a \in DOMAIN crawl.adapters :
      \E d \in DOMAIN crawl.discovers : crawl.discovers[d] = crawl.adapters[a]


\* -------------------------- userTargetedCrawler.ts: rejected job bookkeeping
\* variant: the catch of the per-source try rethrows
CaughtBySourceTry_Rethrows(c) == [c EXCEPT !.pc = "threw"]

\* userTargetedCrawler.ts:184-189  catch (err) { console.error(...) }: the for
\* over the sources goes on with the next pair
CaughtBySourceTry(c) == NextPair(c)

\* userTargetedCrawler.ts:96-115  scrapeJob.findFirst or scrapeJob.create rejects
UserJobThrows ==
  /\ crawl.pc = "usource" /\ crawl.mode = "user"
  /\ crawl.sIdx <= Len(crawl.searches)
  /\ ~(SOURCES[crawl.idx] = "streeteasy" /\ ~crawl.hasKey)
  /\ crawl' = CaughtBySourceTry(crawl)
  /\ last' = [op |-> "jobThrows", source |-> SOURCES[crawl.idx], at |-> "find"]
  /\ UNCHANGED <<now, rawListings, normalized, units, postings, changeLog, job, completed>>
  /\ UNCHANGED <<scrapeJobs, net, inflight>>

\* userTargetedCrawler.ts:171-178  scrapeJob.update rejects
UserJobUpdateThrows ==
  /\ crawl.pc = "ujob" /\ crawl.mode = "user"
  /\ crawl' = CaughtBySourceTry(crawl)
  /\ last' = [op |-> "jobThrows", source |-> SOURCES[crawl.idx], at |-> "update"]
  /\ UNCHANGED <<now, rawListings, normalized, units, postings, changeLog, job, completed>>
  /\ UNCHANGED <<scrapeJobs, net, inflight>>

\* one run of either orchestrator in which any per-source step may reject
FailOptions ==
  [sources : {<<"leasebreak", "streeteasy">>},
   targetCanonicalCount : {2},
   maxUrlsPerRun : {3},
   batchSize : {2}]
FailSearchTables ==
  LET s(name, active, borough) == [name |-> name, isActive |-> active, borough |-> borough]
  IN {<<s("a", TRUE, Null)>>,
      <<s("a", TRUE, Null), s("b", TRUE, Some("Brooklyn"))>>}
NextCrawlFail ==
  \/ RegistryStart(FailOptions, {"idle"})
  \/ RegistryLoop
  \/ RegistrySource(MapResults)
  \/ RegistryFilter
  \/ RegistryIngest(IngestOutcomes)
  \/ RegistryDedupe
  \/ RegistryFinish
  \/ UserStart(FailSearchTables, {"idle"})
  \/ UserSource(MapResults)
  \/ UserJobThrows
  \/ UserFilter
  \/ UserIngest(IngestOutcomes)
  \/ UserDedupe
  \/ UserJobUpdate
  \/ UserJobUpdateThrows
  \/ UserFinish
SpecCrawlFail == Init /\ [][NextCrawlFail]_vars /\ WF_vars(NextCrawlFail)

\* the step is a rejected mapViaFirecrawl or a rejected per-source job call
SourceStepThrew == (last'.op = "map" /\ last'.threw) \/ last'.op = "jobThrows"

\* C26: a rejected discovery or job call of one source is caught: the run is at
\* the head of the source loop for the next source (or next saved search), and
\* it goes on to its updateFreshness and returns
C26_SourceFailureIsCaught ==
  /\ [][SourceStepThrew =>
          IF crawl.mode = "registry"
          THEN /\ crawl'.pc = "source" /\ crawl'.idx = crawl.idx + 1
               /\ crawl'.loop = crawl.loop
          ELSE /\ crawl'.pc = "usource"
               /\ \/ crawl.idx < Len(SOURCES) /\ crawl'.idx = crawl.idx + 1 /\ crawl'.sIdx = crawl.sIdx
                  \/ crawl.idx = Len(SOURCES) /\ crawl'.idx = 1 /\ crawl'.sIdx = crawl.sIdx + 1]_vars
  /\ [](crawl.pc = "returned" => /\ crawl.freshnessRuns = 1
                                 /\ crawl.mode = "user" => crawl.sIdx = Len(crawl.searches) + 1)
  /\ ((crawl.pc # "idle" /\ last.op \in {"map", "jobThrows"}) ~> crawl.pc = "returned")

\* the job update of the first source was rejected and sources remain
C26_Witness ==
  /\ last.op = "jobThrows" /\ last.at = "update"
  /\ crawl.pc = "usource" /\ crawl.idx = 2 /\ crawl.hasKey
  /\ Len(crawl.searches) = 2


\* ----------------------------- userTargetedCrawler.ts: the per-search cap
\* a discovery result longer than the cap, one of exactly the cap, a short one
ManyUrls ==
  <<"n01", "n02", "n03", "n04", "n05", "n06", "n07", "n08", "n09", "n10", "n11",
    "n12", "n13", "n14", "n15", "n16", "n17", "n18", "n19", "n20", "n21">>
CapResults ==
  [leasebreak |-> {ManyUrls, SubSeq(ManyUrls, 1, MAX_PER_SEARCH), <<"n01">>},
   streeteasy |-> {<<>>, <<"n01">>}]
CapSearchTables ==
  LET s(name, active, borough) == [name |-> name, isActive |-> active, borough |-> borough]
  IN {<<s("a", FALSE, Null)>>,
      <<s("a", TRUE, Null)>>,
      <<s("a", TRUE, Null), s("b", FALSE, Some("Brooklyn"))>>,
      <<s("a", FALSE, Null), s("b", TRUE, Some("Brooklyn"))>>}
NextCap ==
  \/ UserStart(CapSearchTables, {"idle"})
  \/ UserSource(CapResults)
  \/ UserFilter
  \/ UserIngest({"ok", "fetchThrows"})
  \/ UserDedupe
  \/ UserJobUpdate
  \/ UserFinish
SpecCap == Init /\ [][NextCap]_vars

UserRunning == crawl.pc # "idle" /\ crawl.mode = "user"

\* C27: a run makes at most 20 ingestOne calls per active SavedSearch and
\* source, and discovers and ingests for active SavedSearches only
C27_CapPerSearchAndSource ==
  /\ [](UserRunning =>
          /\ crawl.pairCalls <= 20
          /\ \A i \in DOMAIN crawl.searches : crawl.searches[i].isActive
          /\ crawl.searches = <<>> => (crawl.pc = "returned" /\ crawl.ingestCalls = 0))
  /\ [][(UserRunning /\ last'.op \in {"map", "filter", "ingest"}) =>
          /\ crawl.sIdx \in DOMAIN crawl.searches
          /\ crawl.searches[crawl.sIdx].isActive]_vars

\* 21 new URLs were discovered for a pair and the pair ended after 20 calls, in a
\* run whose table also holds an inactive search
C27_Witness ==
  /\ UserRunning
  /\ last.op = "jobUpdate"
  /\ crawl.pairCalls = 20
  /\ Len(crawl.links) = 21
  /\ crawl.searches[1].name = "b"


\* C28: there is never more than one active ScrapeJob per (source, mode, query):
\* a further invocation for the same campaign adds to the row that exists
C28_OneActiveJobPerCampaign ==
  \A i, j \in DOMAIN scrapeJobs :
    (/\ scrapeJobs[i].status = "active" /\ scrapeJobs[j].status = "active"
     /\ scrapeJobs[i].source = scrapeJobs[j].source
     /\ scrapeJobs[i].mode = scrapeJobs[j].mode
     /\ scrapeJobs[i].query = scrapeJobs[j].query)
    => i = j


\* C29: when a run of runRegistryCrawler that created a ScrapeJob has finished,
\* the job is "paused" if the number of canonical units has reached the target
\* and "active" otherwise, and its three counts are the totals of the run
C29_JobReflectsRun ==
  (crawl.pc = "returned" /\ crawl.mode = "registry" /\ crawl.jobId # 0) =>
    LET j == scrapeJobs[crawl.jobId]
    IN /\ j.status = (IF Len(units) >= crawl.targetCanonicalCount THEN "paused" ELSE "active")
       /\ j.discoveredCount = crawl.totalDiscovered
       /\ j.ingestedCount = crawl.totalIngested
       /\ j.canonicalAddedCount = crawl.totalCanonicalAdded

\* a finished run that reached its target exactly, after ingesting two listings
C29_Witness ==
  /\ crawl.pc = "returned" /\ crawl.mode = "registry" /\ crawl.jobId # 0
  /\ scrapeJobs[crawl.jobId].status = "paused"
  /\ scrapeJobs[crawl.jobId].ingestedCount = 2
  /\ Len(units) = crawl.targetCanonicalCount


\* C31: with a limit L the candidates ingestAdapter selects are the first
\* min(L, n) of the n discovered ones, for every L >= 0; without a limit all n
C31_LimitSelectsPrefix ==
  (IngestAllRunning /\ crawl.pc = "item") =>
    LET n == Len(crawl.discovered)
        k == IF IsNull(crawl.limit) THEN n ELSE Min(Val(crawl.limit), n)
    IN crawl.toProcess = SubSeq(crawl.discovered, 1, k)


\* ------------------------------------------- normalize.ts: normalizeAddress
\* spellings of one place: a house number, a directional, a street type
Directionals == [east |-> {"East", "E"}, west |-> {"West", "W"}]
StreetTypes == [street |-> {"Street", "St"}, road |-> {"Road", "Rd"}]
UnitSuffixes ==
  {<<>>, <<",", " ", "Apt", " ", "2G">>, <<" ", "#", "2G">>, <<" ", "Unit", " ", "3F">>}
Spelled(number, dir, type, suffix) ==
  <<number, " ", dir, " ", "52nd", " ", type>> \o suffix
SpellingsOf(number, d, t) ==
  {Spelled(number, dir, type, suffix) :
     dir \in Directionals[d], type \in StreetTypes[t], suffix \in UnitSuffixes}

\* two spellings of one place are given to normalizeAddress
InitNormalize ==
  /\ EmptyStore
  /\ \E number \in {"350", "12"}, d \in DOMAIN Directionals, t \in DOMAIN StreetTypes :
       \E a, b \in SpellingsOf(number, d, t) :
         last = [op |-> "normalizeInput", a |-> a, b |-> b]

NormalizeCall ==
  /\ last.op = "normalizeInput"
  /\ last' = [op |-> "normalize", a |-> last.a, b |-> last.b,
              ra |-> normalizeAddress(last.a), rb |-> normalizeAddress(last.b)]
  /\ UNCHANGED <<now, rawListings, normalized, units, postings, changeLog, job, completed>>
  /\ UNCHANGED orchVars

SpecNormalize == InitNormalize /\ [][NormalizeCall]_vars

\* C32: two addresses of one place that differ only in the spelling of the
\* directional or of the street type and in a trailing unit designator
\* normalize to equal keys ("350 East 52nd Street, Apt 2G" and
\* "350 E 52nd St #2G" among them)
C32_SpellingsShareKey ==
  last.op = "normalize" => last.ra = last.rb


\* ------------------------------------- normalize.ts: geoBucket, finer inputs
\* coordinates in units of 0.00001 degree, so that a fifth decimal can be given
\* variant: the thousandths are cut off instead of rounded
RoundMilli_Truncates(x) == x \div 100

\* Math.round(x * 1000): the nearest thousandth, a half goes up
RoundMilli(x) == (x + 50) \div 100

\* geoBucket on such coordinates; the two toFixed(3) texts are equal exactly
\* when the two rounded numbers are
geoBucketFine(lat, lng) ==
  IF IsNull(lat) \/ IsNull(lng) THEN Null
  ELSE Some(<<RoundMilli(Val(lat)), RoundMilli(Val(lng))>>)

FineLats == {Null, Some(4071280), Some(4071284), Some(4071250), Some(4071249), Some(4071349)}
FineLngs == {Null, Some(-7400600), Some(-7400601), Some(-7400650), Some(-7400651), Some(-7400551)}

InitBucket ==
  /\ EmptyStore
  /\ \E la \in FineLats, lo \in FineLngs, lb \in FineLats, lp \in FineLngs :
       last = [op |-> "bucketInput", p |-> <<la, lo>>, q |-> <<lb, lp>>]

GeoBucketCall ==
  /\ last.op = "bucketInput"
  /\ last' = [op |-> "bucket", p |-> last.p, q |-> last.q,
              bp |-> geoBucketFine(last.p[1], last.p[2]),
              bq |-> geoBucketFine(last.q[1], last.q[2])]
  /\ UNCHANGED <<now, rawListings, normalized, units, postings, changeLog, job, completed>>
  /\ UNCHANGED orchVars

SpecBucket == InitBucket /\ [][GeoBucketCall]_vars

\* r thousandths is the value of x (in 0.00001) rounded to 3 decimal places
IsRounded(x, r) == 100 * r - 50 <= x /\ x <= 100 * r + 50
Thousandths == {40712, 40713, 40714, -74005, -74006, -74007}
RoundsAlike(x, y) ==
  \E r \in Thousandths : /\ 100 * r - 50 <= x /\ x < 100 * r + 50
                         /\ 100 * r - 50 <= y /\ y < 100 * r + 50
BucketIsRight(point, bucket) ==
  /\ IsNull(bucket) <=> (IsNull(point[1]) \/ IsNull(point[2]))
  /\ ~IsNull(bucket) => /\ IsRounded(Val(point[1]), Val(bucket)[1])
                        /\ IsRounded(Val(point[2]), Val(bucket)[2])

\* C33: geoBucket is null exactly when lat or lng is absent; otherwise it is the
\* two coordinates rounded to 3 decimals, and points whose coordinates round to
\* the same values get equal buckets
C33_BucketIsRoundedPair ==
  last.op = "bucket" =>
    /\ BucketIsRight(last.p, last.bp)
    /\ BucketIsRight(last.q, last.bq)
    /\ (/\ ~IsNull(last.bp) /\ ~IsNull(last.bq)
        /\ RoundsAlike(Val(last.p[1]), Val(last.q[1]))
        /\ RoundsAlike(Val(last.p[2]), Val(last.q[2]))) => last.bp = last.bq

\* (40.7128, -74.0060) and (40.71284, -74.00601) share the bucket (40.713, -74.006)
C33_Witness ==
  /\ last.op = "bucket"
  /\ last.p = <<Some(4071280), Some(-7400600)>>
  /\ last.q = <<Some(4071284), Some(-7400601)>>
  /\ last.bp = Some(<<40713, -74006>>) /\ last.bq = last.bp


\* the units a listing is linked to by UnitPostings
UnitsOfListing(id) == {p.canonicalUnitId : p \in {q \in postings : q.normalizedListingId = id}}

\* C34: after any sequence of ingest and dedupe operations, re-imports of an
\* attached URL with changed fields included, each NormalizedListing is linked
\* by UnitPostings to at most one CanonicalUnit
C34_AtMostOneUnitPerListing ==
  \A r \in normalized : Cardinality(UnitsOfListing(r.id)) <= 1


\* C35: a second dedupeAndUpsertCanonical for the same listing, directly after
\* the first, leaves the numbers of CanonicalUnits, UnitPostings and ChangeLog
\* rows as the first call left them
C35_SecondCallChangesNothing ==
  [][(/\ last.op = "dedupe" /\ last.found
      /\ last'.op = "dedupe" /\ last'.found
      /\ last'.listing = last.listing)
     => /\ Len(units') = Len(units)
        /\ Cardinality(postings') = Cardinality(postings)
        /\ Len(changeLog') = Len(changeLog)]_vars


\* a listing whose page changes between two fetches, matched and then swept by
\* dedupeAll (worker commands ingest, dedupe)
RepriceFeed == {<<"leasebreak", "u1", "c1">>, <<"leasebreak", "u1", "c3">>,
                <<"streeteasy", "u1", "c1">>}
NextReprice ==
  \/ Tick(ShortTime)
  \/ IngestOne(RepriceFeed, {"ok"})
  \/ DedupeAndUpsertCanonical
  \/ DedupeAllStart
  \/ DedupeAllStep
  \/ DedupeAllBest

SpecReprice == Init /\ [][NextReprice]_vars

PriceChangeLogged(log, cu, old, new) ==
  \E k \in 1..Len(log) :
    /\ log[k].kind = "price_change"
    /\ log[k].canonicalUnitId = cu
    /\ log[k].payload.oldRentGross = old
    /\ log[k].payload.newRentGross = new

\* C36: whenever a step changes a unit's bestRentGross from a non-null value to
\* a different non-null value, the ChangeLog holds a price_change row for that
\* unit with exactly the old and the new value
C36_PriceTransitionsLogged ==
  [][\A cu \in 1..Len(units) :
       (/\ ~IsNull(units[cu].bestRentGross)
        /\ ~IsNull(units'[cu].bestRentGross)
        /\ units'[cu].bestRentGross # units[cu].bestRentGross)
       => PriceChangeLogged(changeLog', cu, Val(units[cu].bestRentGross),
                            Val(units'[cu].bestRentGross))]_vars


\* dedupeAll has just returned
DedupeAllDone == last.op = "best" /\ job = Idle

\* the unit carries the time and the best fields of listing l
CarriesBestOf(u, l) ==
  /\ u.lastSeenAt = l.lastSeenAt
  /\ u.bestRentGross = l.f.rentGross
  /\ u.bestRentNetEffective = l.f.rentNetEffective
  /\ u.brokerFee = l.f.brokerFee

\* C37: when dedupeAll has completed, every unit with a posting has the
\* lastSeenAt of its most recently seen attached listing (the maximum over its
\* attached listings) and that listing's bestRentGross, bestRentNetEffective
\* and brokerFee
C37_BestFieldsFromLatest ==
  DedupeAllDone =>
    \A cu \in 1..Len(units) :
      PostingsOf(cu) # {} =>
        \E p \in PostingsOf(cu) :
          /\ \A q \in PostingsOf(cu) :
               ListingById(q.normalizedListingId).lastSeenAt
                 <= ListingById(p.normalizedListingId).lastSeenAt
          /\ CarriesBestOf(units[cu], ListingById(p.normalizedListingId))

\* a unit with two listings seen at different times and different rents
C37_Witness ==
  /\ DedupeAllDone
  /\ \E cu \in 1..Len(units) :
       \E p, q \in PostingsOf(cu) :
         /\ ListingById(p.normalizedListingId).lastSeenAt
              < ListingById(q.normalizedListingId).lastSeenAt
         /\ ListingById(p.normalizedListingId).f.rentGross
              # ListingById(q.normalizedListingId).f.rentGross
         /\ units[cu].bestRentGross = ListingById(q.normalizedListingId).f.rentGross


\* ------------------------- registryCrawler.ts: the dedupe call of a run rejects
\* `await dedupeAndUpsertCanonical(normalizedId)` rejects before it wrote
\* anything (a failed query); the catch around the URL counts the error
RegistryDedupeThrows ==
  /\ crawl.pc = "dedupe" /\ crawl.mode = "registry"
  /\ crawl' = AfterUrl([crawl EXCEPT !.totalErrors = @ + 1])
  /\ last' = [op |-> "dedupeThrew", listing |-> crawl.normalizedId]
  /\ UNCHANGED <<now, rawListings, normalized, units, postings, changeLog, job, completed,
                 scrapeJobs, net, inflight>>

OrphanOptions ==
  [sources : {<<"leasebreak">>},
   targetCanonicalCount : {0, 2},
   maxUrlsPerRun : {2, 3},
   batchSize : {1, 2}]
OrphanResults ==
  [leasebreak |-> {<<"u1", "u2">>, <<"u2", "u1">>},
   streeteasy |-> {<<>>, <<"u1">>}]

\* the worker in registry mode, run after run; a run whose target is already
\* met returns at once and opens no job
OrphanCrawl ==
  \/ RegistryStart(OrphanOptions, {"idle", "returned"})
  \/ RegistryLoop
  \/ RegistrySource(OrphanResults)
  \/ RegistryFilter
  \/ RegistryIngest({"ok"})
  \/ RegistryDedupe
  \/ RegistryDedupeThrows
  \/ RegistryFinish

\* the worker's dedupe phase, started between two runs of the crawler
DedupePassStart == crawl.pc \in {"idle", "returned"} /\ DedupeAllStart

\* the two loops of a pass that has started
DedupePassRun ==
  \/ DedupeAllStep
  \/ DedupeAllBest

NextOrphan ==
  \/ OrphanCrawl
  \/ DedupePassStart
  \/ DedupePassRun

\* registry mode returns without calling dedupeAll: the crawler's steps are
\* sure to be taken and a pass that started runs on, but nothing starts a pass
SpecOrphan ==
  Init /\ [][NextOrphan]_vars /\ WF_vars(OrphanCrawl) /\ WF_vars(DedupePassRun)

Unattached == {r \in normalized : ~\E p \in postings : p.normalizedListingId = r.id}

\* a run has returned that discovered URLs, found none of them new, and left a
\* listing without a posting
SkippedUnattached ==
  /\ crawl.pc = "returned" /\ crawl.mode = "registry"
  /\ crawl.iterFiltered >= 1 /\ crawl.totalNewUrls = 0
  /\ Unattached # {}

\* C38: every NormalizedListing eventually gets a UnitPosting: a listing that
\* a crawler run left without one (its dedupe step failed), and that a later
\* run has discovered again, is attached later
C38_EveryListingAttachedLater ==
  SkippedUnattached ~> (Unattached = {})


\* ----------------------------- dedupe.ts: findCandidates against scoreMatch
\* a listing and one stored unit: coordinates at the centre of a bucket, at its
\* two edges, in the box but in the next bucket, and outside the box
BoxListings ==
  [address : {Null, Some(<<>>), Some(Addr350Apt), Some(Addr12)},
   unit : {Null, Some("2G")},
   lat : {Null, Some(407128)},
   lng : {Null, Some(-740060)},
   bedrooms : {Null, Some(2)},
   bathrooms : {Null}]

BoxCandidates ==
  [canonicalAddress : {Null, Some(NormalizedAddress[Addr350Apt])},
   canonicalUnit : {Null, Some("2g")},
   lat : {Null, Some(407130), Some(407125), Some(407134), Some(407138), Some(407141),
          Some(407119)},
   lng : {Null, Some(-740060), Some(-740065), Some(-740056), Some(-740071)},
   bedrooms : {Null, Some(2)},
   bathrooms : {Null}]

InitCandidates ==
  /\ EmptyStore
  /\ \E l \in BoxListings, c \in BoxCandidates :
       last = [op |-> "candidatesInput", listing |-> l, candidate |-> c]

\* the query and the score of dedupeAndUpsertCanonical for one stored unit
FindCandidatesCall ==
  /\ last.op = "candidatesInput"
  /\ LET normAddr == NormAddrOf(last.listing)
         bucket == geoBucket(last.listing.lat, last.listing.lng)
     IN last' = [op |-> "candidates", listing |-> last.listing, candidate |-> last.candidate,
                 returned |-> findCandidates(<<last.candidate>>, normAddr, bucket),
                 score |-> scoreMatch(last.listing, last.candidate, normAddr, bucket)]
  /\ UNCHANGED <<now, rawListings, normalized, units, postings, changeLog, job, completed>>
  /\ UNCHANGED orchVars

SpecCandidates == InitCandidates /\ [][FindCandidatesCall]_vars

\* C39: a unit whose scoreMatch against the listing is at least 60 is among
\* the rows findCandidates returns for that listing
C39_PrefilterKeepsMatches ==
  (last.op = "candidates" /\ last.score >= 60) => 1 \in last.returned

\* a unit accepted without the address term, at the edge of the listing's bucket
C39_Witness ==
  /\ last.op = "candidates"
  /\ last.score = 60
  /\ IsNull(last.listing.address)
  /\ last.candidate.lat = Some(407125)
  /\ last.candidate.lng = Some(-740056)
  /\ last.returned = {1}


\* one run of the registry filler on an empty store in which every failing
\* ingestOne fails in adapter.parse, after the fetched body was stored
RetryOptions ==
  [sources : {<<"leasebreak", "streeteasy">>},
   targetCanonicalCount : {2, 3},
   maxUrlsPerRun : {3, 4},
   batchSize : {1, 2}]
NextRetry ==
  \/ RegistryStart(RetryOptions, {"idle"})
  \/ RegistryLoop
  \/ RegistrySource(MapResults)
  \/ RegistryFilter
  \/ RegistryIngest({"ok", "parseThrows"})
  \/ RegistryDedupe
  \/ RegistryFinish

SpecRetry == Init /\ [][NextRetry]_vars

\* the step is a call ingestOne(adapter, url) of the run
IngestOneCalled == RegistryRunning /\ crawl'.ingestCalls = crawl.ingestCalls + 1

\* an earlier call of this run for the URL got as far as storing its body
AttemptedBefore(source, url) == RowsFor(rawListings, source, url) # {}

\* C40: within one run of runRegistryCrawler no URL is passed to ingestOne
\* twice for the same source, failed earlier attempts included
C40_NoUrlAttemptedTwice ==
  [][IngestOneCalled => ~AttemptedBefore(crawl.sources[crawl.idx], crawl'.url)]_vars

\* C40 (amended): within one run no URL that has a NormalizedListing for the
\* source, stored by this run or before it, is passed to ingestOne; a URL whose
\* earlier attempt failed is still new and may be attempted again
C40_StoredUrlNotIngestedAgain ==
  [][IngestOneCalled => RowsFor(normalized, crawl.sources[crawl.idx], crawl'.url) = {}]_vars

\* two calls of the run for one URL: the first failed, the second stored it
C40_Witness ==
  /\ RegistryRunning
  /\ last.op = "ingest"
  /\ crawl.ingestCalls = 2
  /\ Cardinality(rawListings) = 1
  /\ Cardinality(normalized) = 1

====
